---------------------------- MODULE Spec2Model ----------------------------
(***************************************************************************)
(* Watch-cache ordered store / indexer (package cacher):                   *)
(*   btreeStore, indexer, threadedStoreIndexer, continueCache.             *)
(*                                                                         *)
(* Strings are sequences of bytes; byte 0 is the null byte used to build   *)
(* continuation keys.  A btree.BTree is modelled by the ascending sequence *)
(* of its items; tree pointers are indices into the heap `trees`.          *)
(***************************************************************************)
EXTENDS Integers, Sequences, FiniteSets, TLC

(***************************************************************************)
(* Bounds of the model.                                                    *)
(***************************************************************************)
MaxElems == 3      \* most elements a store holds in SpecScan
MaxLimit == 2      \* largest limit handed to ListPrefix
MaxCalls == 2      \* facade calls of the writer's stream in Spec
MaxRV == 2         \* largest revision handed to the continueCache
MaxReaders == 2    \* concurrent readers of the facade in SpecConc
MaxOperations == 2 \* most entries of the operations list in SpecOps
MaxGoroutines == 2 \* most goroutines started by Run and not yet finished

Bytes == {0, 1}

\* Keys of stored elements: every non-empty string of one or two bytes.
Keys == {<<a>> : a \in Bytes} \cup {<<a, b>> : a, b \in Bytes}

EmptyString == << >>

Prefixes == {EmptyString} \cup Keys

\* Continuation keys: empty, a key, or a key followed by a null byte.
ContinueKeys == Prefixes \cup {Append(k, 0) : k \in Keys}

Limits == (-1)..MaxLimit

(***************************************************************************)
(* Go string comparison and strings.HasPrefix.                             *)
(***************************************************************************)
StrLess(a, b) ==
    \E i \in 1..Len(b) :
        /\ \A j \in 1..(i - 1) : j <= Len(a) /\ a[j] = b[j]
        /\ (i > Len(a) \/ a[i] < b[i])

HasPrefix(s, prefix) ==
    /\ Len(prefix) <= Len(s)
    /\ SubSeq(s, 1, Len(prefix)) = prefix

(***************************************************************************)
(* storeElement and its btree.Item ordering.                               *)
(***************************************************************************)
\* The Object of a search pivot (&storeElement{Key: key}) and of nil.
NoObject == "<nil>"

Nil == [kind |-> "nil", Key |-> EmptyString, Object |-> NoObject]

\* An interface value that is not a *storeElement.
NotAnElement == [kind |-> "other", Key |-> EmptyString, Object |-> NoObject]

storeElement(key, object) == [kind |-> "elem", Key |-> key, Object |-> object]

\* storeElement.Less: ordering by raw key comparison.
ElemLess(a, b) == StrLess(a.Key, b.Key)

(***************************************************************************)
(* github.com/google/btree, as the ascending sequence of the items.        *)
(***************************************************************************)
BTreeNew == << >>

BTreeLen(t) == Len(t)

\* Get: the item equal to the pivot under Less, or nil.
BTreeGet(t, pivot) ==
    LET hit == {i \in 1..Len(t) : ~ElemLess(t[i], pivot) /\ ~ElemLess(pivot, t[i])}
    IN  IF hit = {} THEN Nil ELSE t[CHOOSE i \in hit : TRUE]

\* ReplaceOrInsert: the new tree and the item replaced (nil when none).
BTreeReplaceOrInsert(t, item) ==
    LET lower == SelectSeq(t, LAMBDA e : ElemLess(e, item))
        upper == SelectSeq(t, LAMBDA e : ElemLess(item, e))
    IN  [tree |-> lower \o <<item>> \o upper, old |-> BTreeGet(t, item)]

\* Delete: the new tree and the item removed (nil when none).
BTreeDelete(t, item) ==
    [tree |-> SelectSeq(t, LAMBDA e : ElemLess(e, item) \/ ElemLess(item, e)),
     old  |-> BTreeGet(t, item)]

\* The items AscendGreaterOrEqual hands to its iterator, in order.
BTreeAscendGreaterOrEqual(t, pivot) == SelectSeq(t, LAMBDA e : ~ElemLess(e, pivot))

\* The items Ascend hands to its iterator, in order.
BTreeAscend(t) == t

(***************************************************************************)
(* btreeStore: reads.  The receiver is passed as the tree it points to.    *)
(***************************************************************************)
List(tree) == BTreeAscend(tree)

\* A plausible slip: the keys are collected with Descend.
ListKeys_Descend(tree) ==
    [i \in 1..Len(BTreeAscend(tree)) |->
        BTreeAscend(tree)[Len(BTreeAscend(tree)) + 1 - i].Key]

ListKeys(tree) == [i \in 1..Len(BTreeAscend(tree)) |-> BTreeAscend(tree)[i].Key]

\* A plausible slip: an absent key is reported as a failed lookup.
getByKey_NotFoundError(tree, key) ==
    LET item == BTreeGet(tree, storeElement(key, NoObject))
    IN  [item |-> item, exists |-> item # Nil, err |-> item = Nil]

getByKey(tree, key) ==
    LET item == BTreeGet(tree, storeElement(key, NoObject))
    IN  [item |-> item, exists |-> item # Nil, err |-> FALSE]

GetByKey(tree, key) == getByKey(tree, key)

\* A plausible slip: an object of the wrong type is reported as absent.
Get_NoTypeError(tree, obj) ==
    IF obj.kind # "elem" THEN [item |-> Nil, exists |-> FALSE, err |-> FALSE]
    ELSE IF BTreeGet(tree, obj) = Nil THEN [item |-> Nil, exists |-> FALSE, err |-> FALSE]
    ELSE [item |-> BTreeGet(tree, obj), exists |-> TRUE, err |-> FALSE]

Get(tree, obj) ==
    IF obj.kind # "elem" THEN [item |-> Nil, exists |-> FALSE, err |-> TRUE]
    ELSE IF BTreeGet(tree, obj) = Nil THEN [item |-> Nil, exists |-> FALSE, err |-> FALSE]
    ELSE [item |-> BTreeGet(tree, obj), exists |-> TRUE, err |-> FALSE]

\* A plausible slip: the iterator passes over a key without the prefix
\* and goes on.
RECURSIVE ScanUnlimited_PassOver(_, _, _, _)
ScanUnlimited_PassOver(items, i, prefix, result) ==
    IF i > Len(items) THEN result
    ELSE IF ~HasPrefix(items[i].Key, prefix)
         THEN ScanUnlimited_PassOver(items, i + 1, prefix, result)
         ELSE ScanUnlimited_PassOver(items, i + 1, prefix, Append(result, items[i]))

\* The iterator of the limit = 0 scan, applied from item i on.
RECURSIVE ScanUnlimited(_, _, _, _)
ScanUnlimited(items, i, prefix, result) ==
    IF i > Len(items) THEN result
    ELSE IF ~HasPrefix(items[i].Key, prefix) THEN result
    ELSE ScanUnlimited(items, i + 1, prefix, Append(result, items[i]))

\* A plausible slip: the length test admits one element too many.
RECURSIVE ScanLimited_OffByOne(_, _, _, _, _)
ScanLimited_OffByOne(items, i, prefix, limit, result) ==
    IF i > Len(items) THEN [result |-> result, hasMore |-> FALSE]
    ELSE IF ~HasPrefix(items[i].Key, prefix) THEN [result |-> result, hasMore |-> FALSE]
    ELSE IF Len(result) <= limit
         THEN ScanLimited_OffByOne(items, i + 1, prefix, limit, Append(result, items[i]))
         ELSE [result |-> result, hasMore |-> TRUE]

\* The iterator of the limit > 0 scan, applied from item i on.
RECURSIVE ScanLimited(_, _, _, _, _)
ScanLimited(items, i, prefix, limit, result) ==
    IF i > Len(items) THEN [result |-> result, hasMore |-> FALSE]
    ELSE IF ~HasPrefix(items[i].Key, prefix) THEN [result |-> result, hasMore |-> FALSE]
    ELSE IF Len(result) < limit
         THEN ScanLimited(items, i + 1, prefix, limit, Append(result, items[i]))
         ELSE [result |-> result, hasMore |-> TRUE]

\* A plausible slip: the empty continueKey is not replaced by the prefix.
ListPrefix_NoDefault(tree, prefix, continueKey, limit) ==
    IF limit < 0 THEN [result |-> << >>, hasMore |-> FALSE]
    ELSE IF limit = 0
         THEN [result  |-> ScanUnlimited(BTreeAscendGreaterOrEqual(tree, storeElement(continueKey, NoObject)),
                                         1, prefix, << >>),
               hasMore |-> FALSE]
         ELSE ScanLimited(BTreeAscendGreaterOrEqual(tree, storeElement(continueKey, NoObject)),
                          1, prefix, limit, << >>)

\* A plausible slip: hasMore is never raised when the page is full.
ListPrefix_NoMore(tree, prefix, continueKey, limit) ==
    LET start == IF continueKey = EmptyString THEN prefix ELSE continueKey
        all   == ScanUnlimited(BTreeAscendGreaterOrEqual(tree, storeElement(start, NoObject)),
                               1, prefix, << >>)
    IN  IF limit < 0 THEN [result |-> << >>, hasMore |-> FALSE]
        ELSE IF limit = 0 \/ Len(all) <= limit THEN [result |-> all, hasMore |-> FALSE]
        ELSE [result |-> SubSeq(all, 1, limit), hasMore |-> FALSE]

\* A plausible slip: a negative limit is served like limit = 0.
ListPrefix_NegativeUnlimited(tree, prefix, continueKey, limit) ==
    LET start == IF continueKey = EmptyString THEN prefix ELSE continueKey
        items == BTreeAscendGreaterOrEqual(tree, storeElement(start, NoObject))
    IN  IF limit <= 0
        THEN [result |-> ScanUnlimited(items, 1, prefix, << >>), hasMore |-> FALSE]
        ELSE ScanLimited(items, 1, prefix, limit, << >>)

ListPrefix(tree, prefix, continueKey, limit) ==
    LET start == IF continueKey = EmptyString THEN prefix ELSE continueKey
        items == BTreeAscendGreaterOrEqual(tree, storeElement(start, NoObject))
    IN  IF limit < 0 THEN [result |-> << >>, hasMore |-> FALSE]
        ELSE IF limit = 0
             THEN [result |-> ScanUnlimited(items, 1, prefix, << >>), hasMore |-> FALSE]
             ELSE ScanLimited(items, 1, prefix, limit, << >>)

\* The iterator of Count, applied from item i on: count++ per matching key.
RECURSIVE CountScan(_, _, _, _)
CountScan(items, i, prefix, count) ==
    IF i > Len(items) THEN count
    ELSE IF ~HasPrefix(items[i].Key, prefix) THEN count
    ELSE CountScan(items, i + 1, prefix, count + 1)

\* A plausible slip: the empty continueKey is not replaced by the prefix.
Count_NoDefault(tree, prefix, continueKey) ==
    CountScan(BTreeAscendGreaterOrEqual(tree, storeElement(continueKey, NoObject)),
              1, prefix, 0)

Count(tree, prefix, continueKey) ==
    LET start == IF continueKey = EmptyString THEN prefix ELSE continueKey
    IN  CountScan(BTreeAscendGreaterOrEqual(tree, storeElement(start, NoObject)),
                  1, prefix, 0)

(***************************************************************************)
(* btreeStore: mutations of the tree the receiver points to.               *)
(***************************************************************************)
addOrUpdateElem(tree, storeElem) == BTreeReplaceOrInsert(tree, storeElem)

deleteElem(tree, storeElem) == BTreeDelete(tree, storeElem)

(***************************************************************************)
(* Go maps: functions whose domain is the set of keys present.             *)
(***************************************************************************)
EmptyMap == << >>

MapPut(m, k, v) == [x \in (DOMAIN m) \cup {k} |-> IF x = k THEN v ELSE m[x]]

MapDelete(m, k) == [x \in (DOMAIN m) \ {k} |-> m[x]]

(***************************************************************************)
(* cache.Indexers handed to newThreadedBtreeStoreIndexer: two registered   *)
(* index functions.  "byNS" returns one value that depends on the key      *)
(* only; "byLabel" returns zero, one or two values read from the object,   *)
(* or an error.                                                            *)
(***************************************************************************)
IndexNames == {"byNS", "byLabel"}

IndexValues == {"ns0", "ns1", "x", "y"}

IndexFunc(name, obj) ==
    IF name = "byNS"
    THEN [values |-> <<IF obj.Key[1] = 0 THEN "ns0" ELSE "ns1">>, err |-> FALSE]
    ELSE CASE obj.Object = "x"   -> [values |-> <<"x">>, err |-> FALSE]
           [] obj.Object = "xy"  -> [values |-> <<"x", "y">>, err |-> FALSE]
           [] obj.Object = "bad" -> [values |-> << >>, err |-> TRUE]
           [] OTHER              -> [values |-> << >>, err |-> FALSE]

\* The orders in which Go may range over the indexers map.
IndexOrders == {<<"byNS", "byLabel">>, <<"byLabel", "byNS">>}

(***************************************************************************)
(* indexer.                                                                *)
(***************************************************************************)
newIndexer == [indices |-> EmptyMap]

\* indexer.add on one index (value -> key -> element).
IndexerAdd(key, value, obj, index) ==
    LET set == IF value \in DOMAIN index THEN index[value] ELSE EmptyMap
    IN  MapPut(index, value, MapPut(set, key, obj))

\* A plausible slip: the emptied set stays in the index.
IndexerDelete_KeepEmpty(key, value, index) ==
    IF value \notin DOMAIN index THEN index
    ELSE MapPut(index, value, MapDelete(index[value], key))

\* indexer.delete on one index; an emptied set is dropped.
IndexerDelete(key, value, index) ==
    IF value \notin DOMAIN index THEN index
    ELSE LET set == MapDelete(index[value], key)
         IN  IF DOMAIN set = {} THEN MapDelete(index, value)
             ELSE MapPut(index, value, set)

RECURSIVE DeleteAll(_, _, _, _)
DeleteAll(key, values, i, index) ==
    IF i > Len(values) THEN index
    ELSE DeleteAll(key, values, i + 1, IndexerDelete(key, values[i], index))

RECURSIVE AddAll(_, _, _, _, _)
AddAll(key, values, i, obj, index) ==
    IF i > Len(values) THEN index
    ELSE AddAll(key, values, i + 1, obj, IndexerAdd(key, values[i], obj, index))

\* One iteration of updateElem's loop, for the index `name`: the indices
\* after it and whether it returned an error.
UpdateOneIndex(indices, name, key, oldObj, newObj) ==
    LET old   == IF oldObj # Nil THEN IndexFunc(name, oldObj)
                 ELSE [values |-> << >>, err |-> FALSE]
        new   == IF newObj # Nil THEN IndexFunc(name, newObj)
                 ELSE [values |-> << >>, err |-> FALSE]
        index == IF name \in DOMAIN indices THEN indices[name] ELSE EmptyMap
    IN  IF old.err \/ new.err THEN [indices |-> indices, err |-> TRUE]
        ELSE IF Len(new.values) = 1 /\ Len(old.values) = 1
                /\ new.values[1] = old.values[1]
             THEN [indices |-> MapPut(indices, name,
                                      IndexerAdd(key, new.values[1], newObj, index)),
                   err     |-> FALSE]
             ELSE [indices |-> MapPut(indices, name,
                                      AddAll(key, new.values, 1, newObj,
                                             DeleteAll(key, old.values, 1, index))),
                   err     |-> FALSE]

\* indexer.updateElem, ranging over the indexers in `order` from position i.
RECURSIVE updateElem(_, _, _, _, _, _)
updateElem(indices, key, oldObj, newObj, order, i) ==
    IF i > Len(order) THEN [indices |-> indices, err |-> FALSE]
    ELSE LET one == UpdateOneIndex(indices, order[i], key, oldObj, newObj)
         IN  IF one.err THEN one
             ELSE updateElem(one.indices, key, oldObj, newObj, order, i + 1)

\* indexer.Replace from obj i on; the indices were reset before.
RECURSIVE IndexerReplaceFrom(_, _, _, _)
IndexerReplaceFrom(indices, objs, i, order) ==
    IF i > Len(objs) THEN [indices |-> indices, err |-> FALSE]
    ELSE IF objs[i].kind # "elem" THEN [indices |-> indices, err |-> TRUE]
    ELSE LET r == updateElem(indices, objs[i].Key, Nil, objs[i], order, 1)
         IN  IF r.err THEN r ELSE IndexerReplaceFrom(r.indices, objs, i + 1, order)

IndexerReplace(objs, order) == IndexerReplaceFrom(EmptyMap, objs, 1, order)

\* indexer.ByIndex: the elements of the set, or an error for an unknown index.
ByIndex(indices, indexName, indexValue) ==
    IF indexName \notin IndexNames THEN [list |-> {}, err |-> TRUE]
    ELSE LET index == IF indexName \in DOMAIN indices THEN indices[indexName] ELSE EmptyMap
             set   == IF indexValue \in DOMAIN index THEN index[indexValue] ELSE EmptyMap
         IN  [list |-> {set[k] : k \in DOMAIN set}, err |-> FALSE]

\* btreeStore.Replace from obj i on; the tree was cleared before.
RECURSIVE StoreReplaceFrom(_, _, _)
StoreReplaceFrom(tree, objs, i) ==
    IF i > Len(objs) THEN [tree |-> tree, err |-> FALSE]
    ELSE IF objs[i].kind # "elem" THEN [tree |-> tree, err |-> TRUE]
    ELSE StoreReplaceFrom(addOrUpdateElem(tree, objs[i]).tree, objs, i + 1)

StoreReplace(objs) == StoreReplaceFrom(BTreeNew, objs, 1)

(***************************************************************************)
(* threadedStoreIndexer: each method as the store and indices it leaves    *)
(* and the error it returns.  `order` is the order in which updateElem     *)
(* ranges over the indexers.                                               *)
(***************************************************************************)
\* A plausible slip: an element whose key is already stored is not replaced.
addOrUpdate_KeepOld(tree, indices, obj, order) ==
    IF obj = Nil THEN [tree |-> tree, indices |-> indices, err |-> TRUE]
    ELSE IF obj.kind # "elem" THEN [tree |-> tree, indices |-> indices, err |-> TRUE]
    ELSE IF getByKey(tree, obj.Key).exists
         THEN [tree |-> tree, indices |-> indices, err |-> FALSE]
         ELSE LET s == addOrUpdateElem(tree, obj)
                  u == updateElem(indices, obj.Key, s.old, obj, order, 1)
              IN  [tree |-> s.tree, indices |-> u.indices, err |-> u.err]

addOrUpdate(tree, indices, obj, order) ==
    IF obj = Nil THEN [tree |-> tree, indices |-> indices, err |-> TRUE]
    ELSE IF obj.kind # "elem" THEN [tree |-> tree, indices |-> indices, err |-> TRUE]
    ELSE LET s == addOrUpdateElem(tree, obj)
             u == updateElem(indices, obj.Key, s.old, obj, order, 1)
         IN  [tree |-> s.tree, indices |-> u.indices, err |-> u.err]

siDelete(tree, indices, obj, order) ==
    IF obj.kind # "elem" THEN [tree |-> tree, indices |-> indices, err |-> TRUE]
    ELSE LET s == deleteElem(tree, obj)
             u == updateElem(indices, obj.Key, s.old, Nil, order, 1)
         IN  IF s.old = Nil
             THEN [tree |-> s.tree, indices |-> indices, err |-> FALSE]
             ELSE [tree |-> s.tree, indices |-> u.indices, err |-> u.err]

siReplace(tree, indices, objs, order) ==
    LET s == StoreReplace(objs)
        u == IndexerReplace(objs, order)
    IN  IF s.err
        THEN [tree |-> s.tree, indices |-> indices, err |-> TRUE]
        ELSE [tree |-> s.tree, indices |-> u.indices, err |-> u.err]

(***************************************************************************)
(* btreeStore methods taking obj interface{}: the tree they leave and the  *)
(* error they return.                                                      *)
(***************************************************************************)
storeAdd(tree, obj) ==
    IF obj = Nil THEN [tree |-> tree, err |-> TRUE]
    ELSE IF obj.kind # "elem" THEN [tree |-> tree, err |-> TRUE]
    ELSE [tree |-> addOrUpdateElem(tree, obj).tree, err |-> FALSE]

storeUpdate(tree, obj) ==
    IF obj = Nil THEN [tree |-> tree, err |-> TRUE]
    ELSE IF obj.kind # "elem" THEN [tree |-> tree, err |-> TRUE]
    ELSE [tree |-> addOrUpdateElem(tree, obj).tree, err |-> FALSE]

storeDelete(tree, obj) ==
    IF obj = Nil THEN [tree |-> tree, err |-> TRUE]
    ELSE IF obj.kind # "elem" THEN [tree |-> tree, err |-> TRUE]
    ELSE [tree |-> deleteElem(tree, obj).tree, err |-> FALSE]

(***************************************************************************)
(* Clone.  A heap maps tree pointers to trees; btree.Clone hands out a     *)
(* new tree with the items of the old one, and later writes to either      *)
(* tree copy the nodes they touch, so the two trees share no state a       *)
(* write can reach.  The address of a new tree is the allocator's choice:  *)
(* the live tree is at 0, the clone S' at 1, the snapshot of revision rv   *)
(* at 1 + rv.                                                              *)
(***************************************************************************)
\* btree.Clone of the tree at `ptr`; `new` is the address of the new tree.
BTreeClone(heap, ptr, new) ==
    [p \in (DOMAIN heap) \cup {new} |-> IF p = new THEN heap[ptr] ELSE heap[p]]

\* A plausible slip: the facade hands out its own store.
siClone_Live(heap, indexer, new) == [heap |-> heap, store |-> indexer.store]

\* A plausible slip: the clone is a second btreeStore on the same tree.
btreeStoreClone_Alias(heap, s, new) == [heap |-> heap, store |-> [tree |-> s.tree]]

\* A plausible slip: the clone takes the tree, the store starts a new one.
btreeStoreClone_Move(heap, s, new) ==
    [heap  |-> [p \in (DOMAIN heap) \cup {new} |->
                   IF p = new THEN heap[s.tree]
                   ELSE IF p = s.tree THEN BTreeNew ELSE heap[p]],
     store |-> [tree |-> new]]

\* btreeStore.Clone: a new btreeStore on a clone of the tree.
btreeStoreClone(heap, s, new) ==
    [heap |-> BTreeClone(heap, s.tree, new), store |-> [tree |-> new]]

\* threadedStoreIndexer.Clone
siClone(heap, indexer, new) == btreeStoreClone(heap, indexer.store, new)

(***************************************************************************)
(* continueCache: `revisions` is the btree of cached revisions (ascending  *)
(* sequence), `cache` maps a revision to the orderedStore cached for it.   *)
(***************************************************************************)
newContinueCache == [revisions |-> << >>, cache |-> EmptyMap]

\* revisions.ReplaceOrInsert(rev(rv)); rev.Less is <.
RevInsert(revisions, rv) ==
    SelectSeq(revisions, LAMBDA r : r < rv) \o <<rv>> \o SelectSeq(revisions, LAMBDA r : rv < r)

\* A plausible slip: only an exact hit in the cache is answered.
FindEqualOrLower_ExactOnly(c, rv) ==
    IF rv \in DOMAIN c.cache
    THEN [indexer |-> c.cache[rv], foundRV |-> rv, ok |-> TRUE]
    ELSE [indexer |-> [tree |-> 0], foundRV |-> 0, ok |-> FALSE]

FindEqualOrLower(c, rv) ==
    IF rv \in DOMAIN c.cache
    THEN [indexer |-> c.cache[rv], foundRV |-> rv, ok |-> TRUE]
    ELSE LET le == SelectSeq(c.revisions, LAMBDA r : ~(rv < r))
         IN  IF le = << >>
             THEN [indexer |-> [tree |-> 0], foundRV |-> 0, ok |-> FALSE]
             ELSE IF le[Len(le)] \in DOMAIN c.cache
                  THEN [indexer |-> c.cache[le[Len(le)]], foundRV |-> le[Len(le)], ok |-> TRUE]
                  ELSE [indexer |-> [tree |-> 0], foundRV |-> le[Len(le)], ok |-> FALSE]

\* A plausible slip: the cache keeps the indexer's own store, not a clone.
ccSet_Live(heap, c, rv, indexer, new) ==
    IF rv \in DOMAIN c.cache THEN [heap |-> heap, cc |-> c]
    ELSE [heap |-> heap,
          cc   |-> [revisions |-> RevInsert(c.revisions, rv),
                    cache     |-> MapPut(c.cache, rv, indexer.store)]]

\* A plausible slip: Set does not test whether rv is cached already.
ccSet_Overwrite(heap, c, rv, indexer, new) ==
    LET cl == siClone(heap, indexer, new)
    IN  [heap |-> cl.heap,
         cc   |-> [revisions |-> RevInsert(c.revisions, rv),
                   cache     |-> MapPut(c.cache, rv, cl.store)]]

\* continueCache.Set
ccSet(heap, c, rv, indexer, new) ==
    IF rv \in DOMAIN c.cache THEN [heap |-> heap, cc |-> c]
    ELSE LET cl == siClone(heap, indexer, new)
         IN  [heap |-> cl.heap,
              cc   |-> [revisions |-> RevInsert(c.revisions, rv),
                        cache     |-> MapPut(c.cache, rv, cl.store)]]

\* A plausible slip: an `if` in place of the `for`, one revision at most.
ccCleanup_Once(c, rv) ==
    IF Len(c.revisions) = 0 THEN c
    ELSE IF rv < c.revisions[1] THEN c
    ELSE [revisions |-> Tail(c.revisions),
          cache     |-> MapDelete(c.cache, c.revisions[1])]

\* A plausible slip: Cleanup leaves the store of a removed revision in
\* the map.
RECURSIVE ccCleanup_KeepStore(_, _)
ccCleanup_KeepStore(c, rv) ==
    IF Len(c.revisions) = 0 THEN c
    ELSE IF rv < c.revisions[1] THEN c
    ELSE ccCleanup_KeepStore([revisions |-> Tail(c.revisions), cache |-> c.cache], rv)

\* continueCache.Cleanup: the loop over the minimum revision.
RECURSIVE ccCleanup(_, _)
ccCleanup(c, rv) ==
    IF Len(c.revisions) = 0 THEN c
    ELSE IF rv < c.revisions[1] THEN c
    ELSE ccCleanup([revisions |-> Tail(c.revisions),
                    cache     |-> MapDelete(c.cache, c.revisions[1])], rv)

(***************************************************************************)
(* nestedPendingOperations: `operations` is the slice of operation         *)
(* structs.  An operationKey is a record of volumeName, podName and        *)
(* nodeName, the empty string being EmptyUniqueVolumeName,                 *)
(* EmptyUniquePodName and EmptyNodeName.  expBackoff is "zero" for the     *)
(* zero ExponentialBackoff and "backoff" once Update recorded an error.    *)
(***************************************************************************)
operationKey(volumeName, podName, nodeName) ==
    [volumeName |-> volumeName, podName |-> podName, nodeName |-> nodeName]

\* The keys handed to Run, one of each form its documentation supports.
RunKeys ==
    {operationKey("", "", ""), operationKey("v", "", ""),
     operationKey("v", "p1", ""), operationKey("v", "p2", ""),
     operationKey("v", "", "n1"), operationKey("v", "", "n2")}

OperationNames == {"attach", "detach"}

NewNestedPendingOperations(exponentialBackOffOnError) ==
    [operations |-> << >>, exponentialBackOffOnError |-> exponentialBackOffOnError,
     constructed |-> TRUE]

\* The match test of the loop of isOperationExists.
KeyMatch(previousKey, key) ==
    /\ previousKey.volumeName = key.volumeName
    /\ (previousKey.podName = "" \/ key.podName = "" \/ previousKey.podName = key.podName)
    /\ (previousKey.nodeName = "" \/ key.nodeName = "" \/ previousKey.nodeName = key.nodeName)

\* isOperationExists: whether an entry matches and the index of the first
\* one that does (0 where the code returns -1).
isOperationExists(operations, key) ==
    LET hits == {i \in 1..Len(operations) : KeyMatch(operations[i].key, key)}
    IN  IF key.volumeName = "" \/ hits = {} THEN [exists |-> FALSE, index |-> 0]
        ELSE [exists |-> TRUE, index |-> CHOOSE i \in hits : \A j \in hits : i <= j]

\* The entries getOperation and deleteOperation take for the one of key.
SameVolumeAndPod(operations, key) ==
    {i \in 1..Len(operations) :
        /\ operations[i].key.volumeName = key.volumeName
        /\ operations[i].key.podName = key.podName}

\* getOperation: the index of the first entry found, or an error.
getOperation(operations, key) ==
    LET hits == SameVolumeAndPod(operations, key)
    IN  IF hits = {} THEN [index |-> 0, err |-> TRUE]
        ELSE [index |-> CHOOSE i \in hits : \A j \in hits : i <= j, err |-> FALSE]

\* deleteOperation: the last entry is moved to the index found and the
\* slice is cut by one; with opIndex = -1 the index expression panics.
deleteOperation(operations, key) ==
    LET found == getOperation(operations, key)
        n     == Len(operations)
    IN  IF found.err THEN [operations |-> operations, panic |-> TRUE]
        ELSE [operations |-> SubSeq([operations EXCEPT ![found.index] = operations[n]],
                                    1, n - 1),
              panic      |-> FALSE]

\* Run up to the go statement: the list it leaves, the error it returns and
\* whether the goroutine is started.  safeToRetry is what
\* expBackoff.SafeToRetry answers for an entry that recorded an error.
Run(operations, opKey, operationName, safeToRetry) ==
    LET found      == isOperationExists(operations, opKey)
        previousOp == operations[found.index]
        backOffErr == previousOp.expBackoff = "backoff" /\ ~safeToRetry
        fresh      == [key |-> opKey, operationName |-> operationName,
                       operationPending |-> TRUE, expBackoff |-> "zero"]
    IN  IF ~found.exists
        THEN [operations |-> Append(operations, fresh), err |-> "nil", started |-> TRUE]
        ELSE IF previousOp.operationPending
        THEN [operations |-> operations, err |-> "AlreadyExists", started |-> FALSE]
        ELSE IF backOffErr /\ previousOp.operationName = operationName
        THEN [operations |-> operations, err |-> "ExponentialBackoff", started |-> FALSE]
        ELSE [operations |->
                 [operations EXCEPT ![found.index] =
                     [key              |-> opKey,
                      operationName    |-> IF backOffErr THEN operationName
                                           ELSE previousOp.operationName,
                      operationPending |-> TRUE,
                      expBackoff       |-> IF backOffErr THEN "zero"
                                           ELSE previousOp.expBackoff]],
              err |-> "nil", started |-> TRUE]

\* IsOperationPending
IsOperationPending(operations, key) ==
    LET found == isOperationExists(operations, key)
    IN  found.exists /\ operations[found.index].operationPending

\* operationComplete between Lock and Unlock; errIsNil tells *err == nil.
operationComplete(g, key, errIsNil) ==
    LET found == getOperation(g.operations, key)
    IN  IF errIsNil \/ ~g.exponentialBackOffOnError
        THEN deleteOperation(g.operations, key)
        ELSE IF found.err THEN [operations |-> g.operations, panic |-> FALSE]
        ELSE [operations |-> [g.operations EXCEPT ![found.index] =
                                 [@ EXCEPT !.expBackoff = "backoff",
                                           !.operationPending = FALSE]],
              panic |-> FALSE]

(***************************************************************************)
(* State.                                                                  *)
(***************************************************************************)
VARIABLES
    trees,      \* heap: tree pointer -> btree.BTree
    query,      \* SpecScan: arguments of the ListPrefix call
    reply,      \* SpecScan: what the call returned ("none" before it)
    pager,      \* SpecScan: a client paging with continuation keys
    si,         \* the threadedStoreIndexer: its store and its indexer
    ref,        \* reference map of the writer's calls: key -> element
    clean,      \* no facade call has returned an error so far
    ret,        \* the last facade call and the error it returned
    calls,      \* number of facade calls made so far
    dupReplace, \* some Replace was handed two entries with the same key
    cc,         \* the continueCache
    clone,      \* SpecClone: the clone S' of the live store, once taken
    liveExpect, \* SpecClone: the items the writer's calls left in S
    snapExpect, \* SpecClone: the items S' got from Clone and its own calls
    setAt,      \* revision -> the items the indexer held when Set cached it
    touched,    \* which of S and S' was written since the Clone
    lock,       \* si.lock: a writer holds it, number of readers holding it
    wr,         \* the writer's position inside a facade method
    rd,         \* each reader's position, its call and what the call read
    committed,  \* store and indices after the writer's completed calls
    walk,       \* SpecPage: the reader paging through a cached store
    last,       \* the last call followed: its arguments, the state before it
    mu,         \* SpecThreads: si.lock and the continueCache's RWMutex
    th,         \* SpecThreads: each goroutine's position inside its call
    grm,        \* the nestedPendingOperations: its operations list
    running,    \* the goroutines Run started that have not completed
    waiters     \* the callers of nestedPendingOperations.Wait

scanVars == <<query, reply, pager>>

facadeVars == <<si, ref, clean, ret, calls, dupReplace>>

ghostVars == <<ref, clean, ret, calls, dupReplace>>

cloneVars == <<cc, clone, liveExpect, snapExpect, setAt, touched>>

concVars == <<lock, wr, rd, committed, walk>>

callVars == <<last>>

threadVars == <<mu, th>>

opsVars == <<grm, running, waiters>>

vars == <<trees, query, reply, pager, si, ref, clean, ret, calls, dupReplace,
          cc, clone, liveExpect, snapExpect, setAt, touched,
          lock, wr, rd, committed, walk, last, mu, th, grm, running, waiters>>

\* The tree holding the elements of a set of keys, built by insertion.
RECURSIVE TreeOf(_)
TreeOf(S) ==
    IF S = {} THEN BTreeNew
    ELSE LET k == CHOOSE x \in S : TRUE
         IN  addOrUpdateElem(TreeOf(S \ {k}), storeElement(k, "plain")).tree

\* si.lock as newThreadedBtreeStoreIndexer leaves it.
NewLock == [writer |-> FALSE, readers |-> 0]

\* si.lock.Lock() returns: no writer and no reader holds the lock.
CanLock(l) == ~l.writer /\ l.readers = 0

\* A plausible slip: the read methods do not take the read lock.
CanRLock_Unlocked(l) == TRUE

\* si.lock.RLock() returns: no writer holds the lock.
CanRLock(l) == ~l.writer

Readers == 1..MaxReaders

WriterIdle == [pc |-> "idle", op |-> "none", arg |-> Nil, old |-> Nil]

ReaderIdle == [pc |-> "idle", call |-> << >>, seen |-> Nil, expect |-> Nil]

WalkIdle ==
    [pc |-> "idle", rv |-> 0, prefix |-> EmptyString, limit |-> 0,
     continueKey |-> EmptyString, store |-> 0, n |-> 0, page |-> << >>,
     pages |-> << >>, E |-> << >>, during |-> FALSE]

\* A zero sync.RWMutex: the goroutine holding the write lock (0 for none),
\* the goroutines holding the read lock, the goroutines blocked in Lock in
\* their order of arrival, the goroutines blocked in RLock.
RWNew == [writer |-> 0, readers |-> {}, wq |-> << >>, rwait |-> {}]

\* The goroutines of SpecThreads.
Threads == {1, 2, 3}

ThreadIdle == [pc |-> "idle", op |-> "none", arg |-> Nil, old |-> Nil]

\* The callers of nestedPendingOperations.Wait.
Waiters == {1, 2}

\* No nestedPendingOperations has been constructed yet.
NotConstructed == [operations |-> << >>, exponentialBackOffOnError |-> FALSE, constructed |-> FALSE]

\* No goroutine started by Run: per key the number of goroutines inside the
\* operation function, the number of goroutines between the Unlock of
\* operationComplete and its deferred cond.Signal, and whether one panicked.
NoGoroutines == [ops |-> [k \in RunKeys |-> 0], signalling |-> 0, panicked |-> FALSE]

\* No call has been followed yet.
NoCall == [op |-> "none"]

\* No facade method is running and no reader is paging.
ConcIdle ==
    /\ lock = NewLock
    /\ wr = WriterIdle
    /\ rd = [r \in Readers |-> ReaderIdle]
    /\ committed = [tree |-> BTreeNew, indices |-> EmptyMap]
    /\ walk = WalkIdle
    /\ last = NoCall
    /\ mu = [si |-> RWNew, c |-> RWNew]
    /\ th = [t \in Threads |-> ThreadIdle]
    /\ grm = NotConstructed
    /\ running = NoGoroutines
    /\ waiters = [w \in Waiters |-> "idle"]

(***************************************************************************)
(* SpecScan: one btreeStore with fixed content; ListPrefix is called once  *)
(* with arbitrary arguments, and a client pages through the same prefix.   *)
(***************************************************************************)
NoReply == [called |-> FALSE, result |-> << >>, hasMore |-> FALSE]

NoClone == [has |-> FALSE, tree |-> 0]

InitScan ==
    /\ \E S \in SUBSET Keys :
          /\ Cardinality(S) <= MaxElems
          /\ trees = [p \in {0} |-> TreeOf(S)]
    /\ \E p \in Prefixes, c \in ContinueKeys, l \in Limits :
          query = [prefix |-> p, continueKey |-> c, limit |-> l]
    /\ reply = NoReply
    /\ pager = [continueKey |-> EmptyString, pages |-> << >>, done |-> FALSE]
    /\ si = [store |-> [tree |-> 0], indexer |-> newIndexer]
    /\ ref = EmptyMap
    /\ clean = TRUE
    /\ ret = [op |-> "new", err |-> FALSE]
    /\ calls = 0
    /\ dupReplace = FALSE
    /\ cc = newContinueCache
    /\ clone = NoClone
    /\ liveExpect = BTreeNew
    /\ snapExpect = BTreeNew
    /\ setAt = EmptyMap
    /\ touched = [live |-> FALSE, clone |-> FALSE]
    /\ ConcIdle

\* store.ListPrefix(prefix, continueKey, limit)
CallListPrefix ==
    /\ ~reply.called
    /\ LET r == ListPrefix(trees[0], query.prefix, query.continueKey, query.limit)
       IN  reply' = [called |-> TRUE, result |-> r.result, hasMore |-> r.hasMore]
    /\ UNCHANGED <<trees, query, pager, facadeVars, callVars, threadVars, opsVars, cloneVars, concVars>>

\* One page of the paging client: the next continueKey is the last returned
\* key followed by a null byte.
NextPage ==
    /\ query.limit > 0
    /\ ~pager.done
    /\ LET r == ListPrefix(trees[0], query.prefix, pager.continueKey, query.limit)
       IN  /\ r.hasMore => r.result # << >>
           /\ pager' = [continueKey |-> IF r.hasMore
                                        THEN Append(r.result[Len(r.result)].Key, 0)
                                        ELSE pager.continueKey,
                        pages       |-> Append(pager.pages, r.result),
                        done        |-> ~r.hasMore]
    /\ UNCHANGED <<trees, query, reply, facadeVars, callVars, threadVars, opsVars, cloneVars, concVars>>

\* store.Count(prefix, continueKey) for the same query; Count has no limit
\* parameter, so the query's limit is not handed to it.
CallCount ==
    /\ last = NoCall
    /\ last' = [op |-> "Count", out |-> Count(trees[0], query.prefix, query.continueKey)]
    /\ UNCHANGED <<trees, scanVars, facadeVars, cloneVars, concVars, threadVars, opsVars>>

NextScan == CallListPrefix \/ NextPage \/ CallCount

SpecScan == InitScan /\ [][NextScan]_vars

(***************************************************************************)
(* Spec: the threadedStoreIndexer fed by the writer's stream of Add,       *)
(* Update, Delete and Replace calls, each call one step.  `ref` is the     *)
(* reference map of the calls so far, `clean` tells that none of them      *)
(* returned an error, `ret` is the last call and what it returned.         *)
(***************************************************************************)
FacadeKeys == {<<0>>, <<0, 1>>, <<1>>}

Objects == {"plain", "x", "xy", "bad"}

FacadeElems == {storeElement(k, o) : k \in FacadeKeys, o \in Objects}

\* What a caller may hand to Add, Update and Delete as obj interface{}.
Inputs == {Nil, NotAnElement} \cup FacadeElems

\* The lists handed to Replace: every list of at most two entries.
ReplaceInputs ==
    {<< >>} \cup {<<a>> : a \in Inputs} \cup {<<a, b>> : a, b \in Inputs}

\* The reference map after Replace(objs): the last entry of a key wins.
RECURSIVE RefOf(_, _, _)
RefOf(m, objs, i) ==
    IF i > Len(objs) THEN m ELSE RefOf(MapPut(m, objs[i].Key, objs[i]), objs, i + 1)

Init ==
    /\ trees = [p \in {0} |-> BTreeNew]
    /\ si = [store |-> [tree |-> 0], indexer |-> newIndexer]
    /\ ref = EmptyMap
    /\ clean = TRUE
    /\ ret = [op |-> "new", err |-> FALSE]
    /\ calls = 0
    /\ dupReplace = FALSE
    /\ cc = newContinueCache
    /\ clone = NoClone
    /\ liveExpect = BTreeNew
    /\ snapExpect = BTreeNew
    /\ setAt = EmptyMap
    /\ touched = [live |-> FALSE, clone |-> FALSE]
    /\ ConcIdle
    /\ query = [prefix |-> EmptyString, continueKey |-> EmptyString, limit |-> 0]
    /\ reply = NoReply
    /\ pager = [continueKey |-> EmptyString, pages |-> << >>, done |-> FALSE]

\* The facade after a call that left `r`.
Commit(r, op, newRef, dup) ==
    /\ dupReplace' = (dupReplace \/ dup)
    /\ calls < MaxCalls
    /\ calls' = calls + 1
    /\ trees' = [trees EXCEPT ![si.store.tree] = r.tree]
    /\ si' = [si EXCEPT !.indexer.indices = r.indices]
    /\ ret' = [op |-> op, err |-> r.err]
    /\ clean' = (clean /\ ~r.err)
    /\ ref' = IF clean /\ ~r.err THEN newRef ELSE EmptyMap
    /\ UNCHANGED <<scanVars, callVars, threadVars, opsVars, cloneVars, concVars>>

\* si.Add(obj); the step covers every order Go may range over the indexers.
Add(obj) ==
    \E r \in {addOrUpdate(trees[si.store.tree], si.indexer.indices, obj, order) :
                 order \in IndexOrders} :
        Commit(r, "Add", MapPut(ref, obj.Key, obj), FALSE)

\* si.Update(obj)
Update(obj) ==
    \E r \in {addOrUpdate(trees[si.store.tree], si.indexer.indices, obj, order) :
                 order \in IndexOrders} :
        Commit(r, "Update", MapPut(ref, obj.Key, obj), FALSE)

\* si.Delete(obj)
Delete(obj) ==
    \E r \in {siDelete(trees[si.store.tree], si.indexer.indices, obj, order) :
                 order \in IndexOrders} :
        Commit(r, "Delete", MapDelete(ref, obj.Key), FALSE)

\* si.Replace(objs, resourceVersion)
Replace(objs) ==
    \E r \in {siReplace(trees[si.store.tree], si.indexer.indices, objs, order) :
                 order \in IndexOrders} :
        Commit(r, "Replace", RefOf(EmptyMap, objs, 1),
               \E i, j \in 1..Len(objs) : i < j /\ objs[i].Key = objs[j].Key)

Next ==
    \/ \E obj \in Inputs : Add(obj)
    \/ \E obj \in Inputs : Update(obj)
    \/ \E obj \in Inputs : Delete(obj)
    \/ \E objs \in ReplaceInputs : Replace(objs)

Spec == Init /\ [][Next]_vars

(***************************************************************************)
(* SpecClone: the facade with its live store S and a clone S' taken with   *)
(* Clone() and written through the btreeStore methods.  Each call is one   *)
(* step.                                                                   *)
(***************************************************************************)
CloneKeys == {<<0>>, <<0, 1>>}

CloneElems ==
    {storeElement(<<0>>, "plain"), storeElement(<<0>>, "x"),
     storeElement(<<0, 1>>, "plain"), storeElement(<<0, 1>>, "x")}

CloneLists ==
    {<< >>} \cup {<<a>> : a \in CloneElems} \cup {<<a, b>> : a, b \in CloneElems}

ClonePrefixes == {EmptyString, <<0>>, <<0, 1>>}

CloneContinueKeys == {EmptyString, <<0>>, <<0, 0>>, <<0, 1>>}

CloneLimits == {-1, 0, 1, 2}

Revisions == 1..MaxRV

\* The heap without the trees no store points to any more.
Collect(heap, live, cl, c) ==
    LET used == {live.store.tree}
                  \cup (IF cl.has THEN {cl.tree} ELSE {})
                  \cup {c.cache[rv].tree : rv \in DOMAIN c.cache}
    IN  [p \in (DOMAIN heap) \cap used |-> heap[p]]

InitClone ==
    /\ trees = [p \in {0} |-> BTreeNew]
    /\ si = [store |-> [tree |-> 0], indexer |-> newIndexer]
    /\ cc = newContinueCache
    /\ clone = NoClone
    /\ liveExpect = BTreeNew
    /\ snapExpect = BTreeNew
    /\ setAt = EmptyMap
    /\ touched = [live |-> FALSE, clone |-> FALSE]
    /\ ConcIdle
    /\ ref = EmptyMap
    /\ clean = TRUE
    /\ ret = [op |-> "new", err |-> FALSE]
    /\ calls = 0
    /\ dupReplace = FALSE
    /\ query = [prefix |-> EmptyString, continueKey |-> EmptyString, limit |-> 0]
    /\ reply = NoReply
    /\ pager = [continueKey |-> EmptyString, pages |-> << >>, done |-> FALSE]

\* A facade mutation that left `r`.
WriterCommit(r) ==
    /\ trees' = [trees EXCEPT ![si.store.tree] = r.tree]
    /\ si' = [si EXCEPT !.indexer.indices = r.indices]
    /\ liveExpect' = r.tree
    /\ touched' = [touched EXCEPT !.live = clone.has]
    /\ UNCHANGED <<cc, clone, snapExpect, setAt, ghostVars, scanVars, callVars, threadVars, opsVars, concVars>>

WriterAdd(obj) ==
    \E r \in {addOrUpdate(trees[si.store.tree], si.indexer.indices, obj, order) :
                 order \in IndexOrders} : WriterCommit(r)

WriterUpdate(obj) ==
    \E r \in {addOrUpdate(trees[si.store.tree], si.indexer.indices, obj, order) :
                 order \in IndexOrders} : WriterCommit(r)

WriterDelete(obj) ==
    \E r \in {siDelete(trees[si.store.tree], si.indexer.indices, obj, order) :
                 order \in IndexOrders} : WriterCommit(r)

WriterReplace(objs) ==
    \E r \in {siReplace(trees[si.store.tree], si.indexer.indices, objs, order) :
                 order \in IndexOrders} : WriterCommit(r)

\* S' = si.Clone(); a clone taken earlier is dropped.
TakeClone ==
    LET c == siClone(trees, si, 1)
        n == [has |-> TRUE, tree |-> c.store.tree]
    IN  /\ clone' = n
        /\ trees' = Collect(c.heap, si, n, cc)
        /\ snapExpect' = trees[si.store.tree]
        /\ touched' = [live |-> FALSE, clone |-> FALSE]
        /\ UNCHANGED <<si, cc, liveExpect, setAt, ghostVars, scanVars, callVars, threadVars, opsVars, concVars>>

\* A btreeStore method called on the clone S' that left `r`.
CloneCommit(r) ==
    /\ clone.has
    /\ trees' = [trees EXCEPT ![clone.tree] = r.tree]
    /\ snapExpect' = r.tree
    /\ touched' = [touched EXCEPT !.clone = TRUE]
    /\ UNCHANGED <<si, cc, clone, liveExpect, setAt, ghostVars, scanVars, callVars, threadVars, opsVars, concVars>>

CloneAdd(obj) == clone.has /\ CloneCommit(storeAdd(trees[clone.tree], obj))

CloneUpdate(obj) == clone.has /\ CloneCommit(storeUpdate(trees[clone.tree], obj))

CloneDelete(obj) == clone.has /\ CloneCommit(storeDelete(trees[clone.tree], obj))

CloneReplace(objs) == clone.has /\ CloneCommit(StoreReplace(objs))

\* continueCache.Set(rv, si); si.Clone() takes the facade's read lock.
CacheSet(rv) ==
    LET r == ccSet(trees, cc, rv, si, 1 + rv)
    IN  /\ CanRLock(lock)
        /\ trees' = r.heap
        /\ cc' = r.cc
        /\ setAt' = (IF rv \in DOMAIN cc.cache THEN setAt
                     ELSE MapPut(setAt, rv, trees[si.store.tree]))
        /\ UNCHANGED <<si, clone, liveExpect, snapExpect, touched, ghostVars, scanVars, callVars, threadVars, opsVars,
                       concVars>>

\* continueCache.Cleanup(rv); the paging reader is followed no further
\* once its revision is removed.
CacheCleanup(rv) ==
    LET c == ccCleanup(cc, rv)
    IN  /\ cc' = c
        /\ trees' = Collect(trees, si, clone, c)
        /\ setAt' = [r \in (DOMAIN setAt) \cap (DOMAIN c.cache) |-> setAt[r]]
        /\ walk' = (IF walk.pc \in {"ready", "scan"} /\ walk.rv \notin DOMAIN c.cache
                    THEN WalkIdle ELSE walk)
        /\ UNCHANGED <<si, clone, liveExpect, snapExpect, touched, ghostVars, scanVars, callVars, threadVars, opsVars,
                       lock, wr, rd, committed>>

NextClone ==
    \/ \E obj \in CloneElems : WriterAdd(obj)
    \/ \E obj \in CloneElems : WriterUpdate(obj)
    \/ \E obj \in CloneElems : WriterDelete(obj)
    \/ \E objs \in CloneLists : WriterReplace(objs)
    \/ TakeClone
    \/ \E obj \in CloneElems : CloneAdd(obj)
    \/ \E obj \in CloneElems : CloneUpdate(obj)
    \/ \E obj \in CloneElems : CloneDelete(obj)
    \/ \E objs \in CloneLists : CloneReplace(objs)

SpecClone == InitClone /\ [][NextClone]_vars

(***************************************************************************)
(* SpecCache: the facade and a continueCache that Set fills from it and    *)
(* Cleanup empties.  Each call is one step.                                *)
(***************************************************************************)
NextCache ==
    \/ \E obj \in CloneElems : WriterAdd(obj)
    \/ \E obj \in CloneElems : WriterUpdate(obj)
    \/ \E obj \in CloneElems : WriterDelete(obj)
    \/ \E objs \in CloneLists : WriterReplace(objs)
    \/ \E rv \in Revisions : CacheSet(rv)
    \/ \E rv \in Revisions : CacheCleanup(rv)

SpecCache == InitClone /\ [][NextCache]_vars

(***************************************************************************)
(* SpecCalls: the continueCache of SpecCache with each Set and Cleanup     *)
(* followed: `last` keeps the call, its revision, the snapshots cached     *)
(* before it and the elements the facade held.                             *)
(***************************************************************************)
CallElems == {storeElement(<<0>>, "plain"), storeElement(<<0>>, "x")}

\* Cleanup is also called with revisions below and above those Set caches.
CleanupRevisions == 0..(MaxRV + 1)

\* The elements of each cached snapshot.
Snapshots(c, heap) == [rv \in DOMAIN c.cache |-> List(heap[c.cache[rv].tree])]

\* continueCache.Set(rv, si)
CallSet(rv) ==
    LET r == ccSet(trees, cc, rv, si, 1 + rv)
    IN  /\ CanRLock(lock)
        /\ trees' = r.heap
        /\ cc' = r.cc
        /\ setAt' = (IF rv \in DOMAIN cc.cache THEN setAt
                     ELSE MapPut(setAt, rv, trees[si.store.tree]))
        /\ last' = [op |-> "Set", rv |-> rv, before |-> Snapshots(cc, trees),
                    revisions |-> cc.revisions, held |-> List(trees[si.store.tree])]
        /\ UNCHANGED <<si, clone, liveExpect, snapExpect, touched, ghostVars, scanVars,
                       concVars, threadVars, opsVars>>

\* continueCache.Cleanup(rv)
CallCleanup(rv) ==
    LET c == ccCleanup(cc, rv)
    IN  /\ cc' = c
        /\ trees' = Collect(trees, si, clone, c)
        /\ setAt' = [r \in (DOMAIN setAt) \cap (DOMAIN c.cache) |-> setAt[r]]
        /\ last' = [op |-> "Cleanup", rv |-> rv, before |-> Snapshots(cc, trees),
                    revisions |-> cc.revisions, held |-> List(trees[si.store.tree])]
        /\ UNCHANGED <<si, clone, liveExpect, snapExpect, touched, ghostVars, scanVars,
                       concVars, threadVars, opsVars>>

NextCalls ==
    \/ \E obj \in CallElems : WriterAdd(obj)
    \/ \E obj \in CallElems : WriterDelete(obj)
    \/ \E rv \in Revisions : CallSet(rv)
    \/ \E rv \in CleanupRevisions : CallCleanup(rv)

SpecCalls == InitClone /\ [][NextCalls]_vars

(***************************************************************************)
(* SpecFrame: the facade with each call followed, one call per step:       *)
(* `last` keeps the method, its argument, the store and the indices before *)
(* the call, the error returned and, for Get and GetByKey, the result.     *)
(***************************************************************************)
FrameElems ==
    {storeElement(<<0>>, "plain"), storeElement(<<0>>, "x"),
     storeElement(<<0>>, "bad"), storeElement(<<0, 1>>, "xy")}

\* What a caller may hand to Add, Update, Delete and Get as obj interface{}.
FrameInputs == {Nil, NotAnElement} \cup FrameElems

\* The lists handed to Replace: every list of at most two entries.
FrameLists ==
    {<< >>} \cup {<<a>> : a \in FrameInputs} \cup {<<a, b>> : a, b \in FrameInputs}

FrameKeys == {<<0>>, <<0, 1>>, <<1>>}

\* The entries of objs before the first one that is not a store element.
RECURSIVE ElementsBefore(_, _)
ElementsBefore(objs, i) ==
    IF i > Len(objs) \/ objs[i].kind # "elem" THEN << >>
    ELSE <<objs[i]>> \o ElementsBefore(objs, i + 1)

\* The element most recently written under each key, after method op was
\* called with arg: a write of a key replaces what was written under it, a
\* Delete removes it, a Replace starts anew.
Written(m, op, arg) ==
    CASE op \in {"Add", "Update"} ->
            IF arg.kind = "elem" THEN MapPut(m, arg.Key, arg) ELSE m
      [] op = "Delete" ->
            IF arg.kind = "elem" THEN MapDelete(m, arg.Key) ELSE m
      [] op = "Replace" -> RefOf(EmptyMap, ElementsBefore(arg, 1), 1)

\* A mutating method returned `r`.
FrameCommit(op, arg, r) ==
    /\ trees' = [trees EXCEPT ![si.store.tree] = r.tree]
    /\ si' = [si EXCEPT !.indexer.indices = r.indices]
    /\ ref' = Written(ref, op, arg)
    /\ last' = [op |-> op, arg |-> arg, tree |-> trees[si.store.tree],
                indices |-> si.indexer.indices, err |-> r.err, out |-> Nil]
    /\ UNCHANGED <<clean, ret, calls, dupReplace, scanVars, cloneVars, concVars,
                   threadVars, opsVars>>

\* A read method returned `out`.
FrameReturn(op, arg, out) ==
    /\ last' = [op |-> op, arg |-> arg, tree |-> trees[si.store.tree],
                indices |-> si.indexer.indices, err |-> out.err, out |-> out]
    /\ UNCHANGED <<trees, si, scanVars, ghostVars, cloneVars, concVars, threadVars, opsVars>>

FrameAdd(obj) ==
    \E r \in {addOrUpdate(trees[si.store.tree], si.indexer.indices, obj, order) :
                 order \in IndexOrders} : FrameCommit("Add", obj, r)

FrameUpdate(obj) ==
    \E r \in {addOrUpdate(trees[si.store.tree], si.indexer.indices, obj, order) :
                 order \in IndexOrders} : FrameCommit("Update", obj, r)

FrameDelete(obj) ==
    \E r \in {siDelete(trees[si.store.tree], si.indexer.indices, obj, order) :
                 order \in IndexOrders} : FrameCommit("Delete", obj, r)

FrameReplace(objs) ==
    \E r \in {siReplace(trees[si.store.tree], si.indexer.indices, objs, order) :
                 order \in IndexOrders} : FrameCommit("Replace", objs, r)

FrameGet(obj) == FrameReturn("Get", obj, Get(trees[si.store.tree], obj))

FrameGetByKey(key) == FrameReturn("GetByKey", key, GetByKey(trees[si.store.tree], key))

\* The index names and values asked for: the registered ones, a name that
\* is not registered and a value no index function returns.
AskedIndexNames == IndexNames \cup {"byNode"}

AskedIndexValues == IndexValues \cup {"z"}

FrameByIndex(indexName, indexValue) ==
    FrameReturn("ByIndex", <<indexName, indexValue>>,
                ByIndex(si.indexer.indices, indexName, indexValue))

NextFrame ==
    \/ \E obj \in FrameInputs : FrameAdd(obj)
    \/ \E obj \in FrameInputs : FrameUpdate(obj)
    \/ \E obj \in FrameInputs : FrameDelete(obj)
    \/ \E objs \in FrameLists : FrameReplace(objs)
    \/ \E obj \in FrameInputs : FrameGet(obj)
    \/ \E key \in FrameKeys : FrameGetByKey(key)
    \/ \E n \in AskedIndexNames, v \in AskedIndexValues : FrameByIndex(n, v)

SpecFrame == InitClone /\ [][NextFrame]_vars

(***************************************************************************)
(* SpecOps: a nestedPendingOperations with its callers.  Run, the critical *)
(* section of operationComplete and each locked stretch of Wait are one    *)
(* step each, as grm.lock makes them; the operation function runs between  *)
(* Run and operationComplete, and the deferred cond.Signal is a step of    *)
(* its own after the Unlock.  Wait is blocked in cond.Wait while           *)
(* "waiting" and has been woken to take the lock again while "woken".      *)
(***************************************************************************)
otherVars ==
    <<trees, scanVars, facadeVars, cloneVars, concVars, callVars, threadVars>>

\* NewNestedPendingOperations(exponentialBackOffOnError)
Construct(exponentialBackOffOnError) ==
    /\ ~grm.constructed
    /\ grm' = NewNestedPendingOperations(exponentialBackOffOnError)
    /\ UNCHANGED <<running, waiters, otherVars>>

\* The goroutines started by Run that have not run their last deferred call.
RECURSIVE SumOver(_, _)
SumOver(f, S) ==
    IF S = {} THEN 0
    ELSE LET k == CHOOSE x \in S : TRUE IN f[k] + SumOver(f, S \ {k})

Goroutines(r) == SumOver(r.ops, RunKeys) + r.signalling

\* grm.Run(volumeName, podName, nodeName, generatedOperations)
OpRun(opKey, operationName) ==
    /\ grm.constructed
    /\ \E r \in {Run(grm.operations, opKey, operationName, safeToRetry) :
                    safeToRetry \in BOOLEAN} :
          /\ Len(r.operations) <= MaxOperations
          /\ r.started => Goroutines(running) < MaxGoroutines
          /\ grm' = [grm EXCEPT !.operations = r.operations]
          /\ running' = IF r.started
                         THEN [running EXCEPT !.ops[opKey] = @ + 1]
                         ELSE running
    /\ UNCHANGED <<waiters, otherVars>>

\* The operation function of a goroutine returns and operationComplete
\* runs up to its Unlock.
OpComplete(key, errIsNil) ==
    /\ running.ops[key] > 0
    /\ LET r == operationComplete(grm, key, errIsNil)
       IN  /\ grm' = [grm EXCEPT !.operations = r.operations]
           /\ running' = [ops        |-> [running.ops EXCEPT ![key] = @ - 1],
                          signalling |-> running.signalling + 1,
                          panicked   |-> running.panicked \/ r.panic]
    /\ UNCHANGED <<waiters, otherVars>>

\* The deferred grm.cond.Signal(): one goroutine blocked in cond.Wait, if
\* there is one, is woken.
OpSignal ==
    /\ running.signalling > 0
    /\ running' = [running EXCEPT !.signalling = @ - 1]
    /\ IF \E w \in Waiters : waiters[w] = "waiting"
       THEN \E w \in Waiters : /\ waiters[w] = "waiting"
                                /\ waiters' = [waiters EXCEPT ![w] = "woken"]
       ELSE UNCHANGED waiters
    /\ UNCHANGED <<grm, otherVars>>

\* Wait: Lock and the loop test; cond.Wait unlocks and blocks.
WaitCall(w) ==
    /\ grm.constructed
    /\ waiters[w] = "idle"
    /\ waiters' = [waiters EXCEPT ![w] = IF Len(grm.operations) > 0 THEN "waiting"
                                         ELSE "returned"]
    /\ UNCHANGED <<grm, running, otherVars>>

\* cond.Wait returns with the lock taken again, and the loop test.
WaitWoken(w) ==
    /\ waiters[w] = "woken"
    /\ waiters' = [waiters EXCEPT ![w] = IF Len(grm.operations) > 0 THEN "waiting"
                                         ELSE "returned"]
    /\ UNCHANGED <<grm, running, otherVars>>

\* The caller of a Wait that returned calls Wait again later.
WaitAgain(w) ==
    /\ waiters[w] = "returned"
    /\ waiters' = [waiters EXCEPT ![w] = "idle"]
    /\ UNCHANGED <<grm, running, otherVars>>

NextOps ==
    \/ \E b \in BOOLEAN : Construct(b)
    \/ \E k \in RunKeys, n \in OperationNames : OpRun(k, n)
    \/ \E k \in RunKeys, e \in BOOLEAN : OpComplete(k, e)
    \/ OpSignal
    \/ \E w \in Waiters : WaitCall(w)
    \/ \E w \in Waiters : WaitWoken(w)
    \/ \E w \in Waiters : WaitAgain(w)

SpecOps == InitClone /\ [][NextOps]_vars

(***************************************************************************)
(* SpecConc: one writer and two readers on the facade.  A mutating method  *)
(* takes si.lock.Lock and writes the store in its first step, then writes  *)
(* the indexer and unlocks in its second; a read method takes RLock and    *)
(* reads in its first step and unlocks in its second.  `committed` is the  *)
(* store and indices after the writer's completed calls, computed by the   *)
(* methods taken as a whole.                                               *)
(***************************************************************************)
ConcElems ==
    {storeElement(<<0>>, "plain"), storeElement(<<0>>, "x"),
     storeElement(<<0, 1>>, "plain"), storeElement(<<0, 1>>, "xy")}

ConcLists ==
    {<< >>} \cup {<<a>> : a \in ConcElems}
       \cup {<<storeElement(<<0>>, "x"), storeElement(<<0, 1>>, "xy")>>}

\* The read methods of the facade with the arguments the readers pass.
ReadCalls ==
    {<<"List">>, <<"ListKeys">>,
     <<"ListPrefix", <<0>>, EmptyString, 1>>,
     <<"ListPrefix", EmptyString, <<0, 0>>, 0>>,
     <<"Count", <<0>>, EmptyString>>,
     <<"Get", storeElement(<<0>>, NoObject)>>,
     <<"GetByKey", <<0, 1>>>>,
     <<"ByIndex", "byLabel", "x">>,
     <<"ByIndex", "byLabel", "y">>,
     <<"ByIndex", "byNS", "ns0">>}

\* What a read method returns on a store and indices.
FacadeRead(call, tree, indices) ==
    CASE call[1] = "List"       -> List(tree)
      [] call[1] = "ListKeys"   -> ListKeys(tree)
      [] call[1] = "ListPrefix" -> ListPrefix(tree, call[2], call[3], call[4])
      [] call[1] = "Count"      -> Count(tree, call[2], call[3])
      [] call[1] = "Get"        -> Get(tree, call[2])
      [] call[1] = "GetByKey"   -> GetByKey(tree, call[2])
      [] call[1] = "ByIndex"    -> ByIndex(indices, call[2], call[3])

\* The paging reader, with the note that the store was written while it
\* was paging.
WalkDuringWrite ==
    IF walk.pc \in {"ready", "scan"} THEN [walk EXCEPT !.during = TRUE] ELSE walk

\* addOrUpdate: Lock and store.addOrUpdateElem.
AddOrUpdateStore(obj) ==
    /\ wr.pc = "idle"
    /\ CanLock(lock)
    /\ lock' = [lock EXCEPT !.writer = TRUE]
    /\ LET s == addOrUpdateElem(trees[si.store.tree], obj)
       IN  /\ trees' = [trees EXCEPT ![si.store.tree] = s.tree]
           /\ wr' = [pc |-> "updateElem", op |-> "addOrUpdate", arg |-> obj, old |-> s.old]
    /\ walk' = WalkDuringWrite
    /\ UNCHANGED <<si, rd, committed, scanVars, callVars, threadVars, opsVars, ghostVars, cloneVars>>

\* Delete: Lock and store.deleteElem; without an old element the method
\* returns.
DeleteStore(obj) ==
    /\ wr.pc = "idle"
    /\ CanLock(lock)
    /\ lock' = [lock EXCEPT !.writer = TRUE]
    /\ LET s == deleteElem(trees[si.store.tree], obj)
       IN  /\ trees' = [trees EXCEPT ![si.store.tree] = s.tree]
           /\ wr' = [pc  |-> IF s.old = Nil THEN "return" ELSE "updateElem",
                     op  |-> "Delete", arg |-> obj, old |-> s.old]
    /\ walk' = WalkDuringWrite
    /\ UNCHANGED <<si, rd, committed, scanVars, callVars, threadVars, opsVars, ghostVars, cloneVars>>

\* Replace: Lock and store.Replace; on its error the method returns.
ReplaceStore(objs) ==
    /\ wr.pc = "idle"
    /\ CanLock(lock)
    /\ lock' = [lock EXCEPT !.writer = TRUE]
    /\ LET s == StoreReplace(objs)
       IN  /\ trees' = [trees EXCEPT ![si.store.tree] = s.tree]
           /\ wr' = [pc  |-> IF s.err THEN "return" ELSE "indexerReplace",
                     op  |-> "Replace", arg |-> objs, old |-> Nil]
    /\ walk' = WalkDuringWrite
    /\ UNCHANGED <<si, rd, committed, scanVars, callVars, threadVars, opsVars, ghostVars, cloneVars>>

\* The method the writer is in, taken as a whole on the committed state.
WholeCall(order) ==
    CASE wr.op = "addOrUpdate" -> addOrUpdate(committed.tree, committed.indices, wr.arg, order)
      [] wr.op = "Delete"      -> siDelete(committed.tree, committed.indices, wr.arg, order)
      [] wr.op = "Replace"     -> siReplace(committed.tree, committed.indices, wr.arg, order)

\* The writer's method returns: the deferred Unlock.
WriterReturn(indices, order) ==
    /\ si' = [si EXCEPT !.indexer.indices = indices]
    /\ lock' = [lock EXCEPT !.writer = FALSE]
    /\ wr' = WriterIdle
    /\ LET w == WholeCall(order)
       IN  committed' = [tree |-> w.tree, indices |-> w.indices]
    /\ UNCHANGED <<trees, rd, walk, scanVars, callVars, threadVars, opsVars, ghostVars, cloneVars>>

\* addOrUpdate and Delete: indexer.updateElem, then the return.
UpdateElemUnlock ==
    /\ wr.pc = "updateElem"
    /\ \E order \in IndexOrders :
          WriterReturn(updateElem(si.indexer.indices, wr.arg.Key, wr.old,
                                  IF wr.op = "Delete" THEN Nil ELSE wr.arg,
                                  order, 1).indices,
                       order)

\* Replace: indexer.Replace, then the return.
IndexerReplaceUnlock ==
    /\ wr.pc = "indexerReplace"
    /\ \E order \in IndexOrders :
          WriterReturn(IndexerReplace(wr.arg, order).indices, order)

\* Delete of an absent key: the return.
ReturnUnlock ==
    /\ wr.pc = "return"
    /\ \E order \in IndexOrders : WriterReturn(si.indexer.indices, order)

\* A read method: RLock and the read of the store or of the indexer.
ReadLocked(r, call) ==
    /\ rd[r].pc = "idle"
    /\ CanRLock(lock)
    /\ lock' = [lock EXCEPT !.readers = @ + 1]
    /\ rd' = [rd EXCEPT ![r] =
                 [pc     |-> "read",
                  call   |-> call,
                  seen   |-> FacadeRead(call, trees[si.store.tree], si.indexer.indices),
                  expect |-> FacadeRead(call, committed.tree, committed.indices)]]
    /\ UNCHANGED <<trees, si, wr, committed, walk, scanVars, callVars, threadVars, opsVars, ghostVars, cloneVars>>

\* A read method returns: the deferred RUnlock.
ReadUnlock(r) ==
    /\ rd[r].pc = "read"
    /\ lock' = [lock EXCEPT !.readers = @ - 1]
    /\ rd' = [rd EXCEPT ![r] = ReaderIdle]
    /\ UNCHANGED <<trees, si, wr, committed, walk, scanVars, callVars, threadVars, opsVars, ghostVars, cloneVars>>

NextConc ==
    \/ \E obj \in ConcElems : AddOrUpdateStore(obj)
    \/ \E obj \in ConcElems : DeleteStore(obj)
    \/ \E objs \in ConcLists : ReplaceStore(objs)
    \/ UpdateElemUnlock
    \/ IndexerReplaceUnlock
    \/ ReturnUnlock
    \/ \E r \in Readers, call \in ReadCalls : ReadLocked(r, call)
    \/ \E r \in Readers : ReadUnlock(r)

SpecConc == InitClone /\ [][NextConc]_vars

(***************************************************************************)
(* SpecPage: the writer of SpecConc, a continueCache filled from the       *)
(* facade, and a reader paging through the store FindEqualOrLower returns  *)
(* for its revision, one iterator call per step, so that the writer's      *)
(* steps fall between and inside the pages.                                *)
(***************************************************************************)
PageElems ==
    {storeElement(<<0>>, "plain"), storeElement(<<0>>, "x"),
     storeElement(<<0, 1>>, "plain"), storeElement(<<1>>, "plain")}

PageLists ==
    {<< >>} \cup {<<a>> : a \in PageElems}
       \cup {<<storeElement(<<0>>, "x"), storeElement(<<1>>, "plain")>>}

PageRevisions == {1}

PagePrefixes == {EmptyString, <<0>>}

\* The reader starts paging revision R, which Set has cached.
PagerStart(R, p, l) ==
    /\ walk.pc = "idle"
    /\ R \in DOMAIN cc.cache
    /\ walk' = [WalkIdle EXCEPT !.pc = "ready", !.rv = R, !.prefix = p, !.limit = l,
                                !.E = setAt[R]]
    /\ UNCHANGED <<trees, si, cc, setAt, lock, wr, rd, committed,
                   clone, liveExpect, snapExpect, touched, scanVars, callVars, threadVars, opsVars, ghostVars>>

\* FindEqualOrLower(R), then ListPrefix on the store found, up to its
\* call of AscendGreaterOrEqual.
PageOpen ==
    /\ walk.pc = "ready"
    /\ LET f == FindEqualOrLower(cc, walk.rv)
       IN  /\ f.ok /\ f.foundRV = walk.rv
           /\ walk' = [walk EXCEPT !.pc = "scan", !.store = f.indexer.tree,
                                   !.n = 0, !.page = << >>]
    /\ UNCHANGED <<trees, si, cc, setAt, lock, wr, rd, committed,
                   clone, liveExpect, snapExpect, touched, scanVars, callVars, threadVars, opsVars, ghostVars>>

\* The items AscendGreaterOrEqual hands to the iterator of the open page.
PageItems ==
    BTreeAscendGreaterOrEqual(trees[walk.store],
        storeElement(IF walk.continueKey = EmptyString THEN walk.prefix
                     ELSE walk.continueKey, NoObject))

\* The iterator takes the next item into the page and returns true.
PageVisit ==
    /\ walk.pc = "scan"
    /\ walk.n < Len(PageItems)
    /\ HasPrefix(PageItems[walk.n + 1].Key, walk.prefix)
    /\ Len(walk.page) < walk.limit
    /\ walk' = [walk EXCEPT !.n = @ + 1, !.page = Append(@, PageItems[walk.n + 1])]
    /\ UNCHANGED <<trees, si, cc, setAt, lock, wr, rd, committed,
                   clone, liveExpect, snapExpect, touched, scanVars, callVars, threadVars, opsVars, ghostVars>>

\* The items are exhausted or the iterator returns false: ListPrefix
\* returns, and the reader derives the next continueKey from the last key.
PageClose ==
    /\ walk.pc = "scan"
    /\ LET exhausted == walk.n >= Len(PageItems)
           hasMore   == /\ ~exhausted
                        /\ HasPrefix(PageItems[walk.n + 1].Key, walk.prefix)
                        /\ ~(Len(walk.page) < walk.limit)
           w         == [walk EXCEPT
                            !.pc = IF hasMore THEN "ready" ELSE "done",
                            !.continueKey = IF hasMore
                                            THEN Append(walk.page[Len(walk.page)].Key, 0)
                                            ELSE @,
                            !.pages = Append(@, walk.page),
                            !.store = 0, !.n = 0, !.page = << >>]
       IN  /\ IF exhausted THEN TRUE
              ELSE IF ~HasPrefix(PageItems[walk.n + 1].Key, walk.prefix) THEN TRUE
              ELSE ~(Len(walk.page) < walk.limit)
           /\ walk' = w
    /\ UNCHANGED <<trees, si, cc, setAt, lock, wr, rd, committed,
                   clone, liveExpect, snapExpect, touched, scanVars, callVars, threadVars, opsVars, ghostVars>>

\* The writer and the cache of SpecPage; the behaviour ends with the
\* reader's last page.
PageAddOrUpdate(obj) == walk.pc # "done" /\ AddOrUpdateStore(obj)

PageDelete(obj) == walk.pc # "done" /\ DeleteStore(obj)

PageReplace(objs) == walk.pc # "done" /\ ReplaceStore(objs)

PageUpdateElemUnlock == walk.pc # "done" /\ UpdateElemUnlock

PageIndexerReplaceUnlock == walk.pc # "done" /\ IndexerReplaceUnlock

PageReturnUnlock == walk.pc # "done" /\ ReturnUnlock

PageCacheSet(rv) == walk.pc # "done" /\ CacheSet(rv)

PageCacheCleanup(rv) == walk.pc # "done" /\ CacheCleanup(rv)

NextPageConc ==
    \/ \E obj \in PageElems : PageAddOrUpdate(obj)
    \/ \E obj \in PageElems : PageDelete(obj)
    \/ \E objs \in PageLists : PageReplace(objs)
    \/ PageUpdateElemUnlock
    \/ PageIndexerReplaceUnlock
    \/ PageReturnUnlock
    \/ \E rv \in PageRevisions : PageCacheSet(rv)
    \/ \E rv \in PageRevisions : PageCacheCleanup(rv)
    \/ \E R \in PageRevisions, p \in PagePrefixes, l \in 1..MaxLimit : PagerStart(R, p, l)
    \/ PageOpen
    \/ PageVisit
    \/ PageClose

SpecPage == InitClone /\ [][NextPageConc]_vars

(***************************************************************************)
(* SpecThreads: three goroutines calling the facade and the continueCache  *)
(* at will.  si.lock and the RWMutex embedded in the continueCache are     *)
(* followed call by call: Lock and RLock are a step of their own, so a     *)
(* goroutine can be blocked in them, and the deferred Unlock or RUnlock    *)
(* is part of the step in which the method returns.  A sync.RWMutex        *)
(* prefers writers: a goroutine blocked in Lock keeps later RLock calls    *)
(* waiting, and Unlock admits the readers that waited.                     *)
(***************************************************************************)
\* Lock() is called: the goroutine queues behind the earlier writers.
RWLockCall(m, t) == [m EXCEPT !.wq = Append(@, t)]

\* A plausible slip: Lock does not wait for the readers to leave.
RWCanLock_IgnoreReaders(m, t) ==
    m.writer = 0 /\ m.wq # << >> /\ m.wq[1] = t

\* Lock() returns: the goroutine is the first writer waiting, and neither
\* a writer nor a reader holds the lock.
RWCanLock(m, t) ==
    m.writer = 0 /\ m.readers = {} /\ m.wq # << >> /\ m.wq[1] = t

RWLock(m, t) == [m EXCEPT !.writer = t, !.wq = Tail(@)]

\* Unlock(): the readers that waited are admitted.
RWUnlock(m) == [m EXCEPT !.writer = 0, !.readers = m.rwait, !.rwait = {}]

\* A plausible slip: RLock is admitted while a writer holds the lock.
RWCanRLock_IgnoreWriter(m) == TRUE

\* RLock() returns at once: no writer holds the lock or waits for it.
RWCanRLock(m) == m.writer = 0 /\ m.wq = << >>

\* RLock() is called: the goroutine holds the read lock or waits for it.
RWRLockCall(m, t) ==
    IF RWCanRLock(m) THEN [m EXCEPT !.readers = @ \cup {t}]
    ELSE [m EXCEPT !.rwait = @ \cup {t}]

RWRUnlock(m, t) == [m EXCEPT !.readers = @ \ {t}]

ThreadElems == {storeElement(<<0>>, "x")}

ThreadLists == {<< >>}

ThreadRevisions == {1, 2}

\* The read methods of the facade but Clone, which have one body: RLock,
\* the deferred RUnlock, and the read of the store or of the indexer.
ReadMethods ==
    {"List", "ListPrefix", "ListKeys", "Get", "GetByKey", "ByIndex", "Count"}

\* The address btree.Clone gives the tree of goroutine t's Clone call.
CloneAddress(t) == 10 + t

\* The variables SpecThreads leaves alone.
restVars ==
    <<query, reply, pager, ref, clean, ret, calls, dupReplace, clone,
      liveExpect, snapExpect, setAt, touched, lock, wr, rd, committed, walk,
      last, grm, running, waiters>>

\* Where a goroutine blocked in RLock continues once admitted.
AdmittedPc(pc) ==
    CASE pc = "RLock"    -> "read"
      [] pc = "SetRLock" -> "clone"
      [] pc = "cRLock"   -> "find"
      [] OTHER           -> pc

\* Goroutine t returns from its method, its deferred Unlock of m admitting
\* the readers that waited for m.
ReturnUnlocking(t, m) ==
    [u \in Threads |->
        IF u = t THEN ThreadIdle
        ELSE IF u \in m.rwait THEN [th[u] EXCEPT !.pc = AdmittedPc(@)]
        ELSE th[u]]

\* Add, Update (addOrUpdate) of a storeElement: up to si.lock.Lock().
ThAddOrUpdate(t, obj) ==
    /\ th[t].pc = "idle"
    /\ mu' = [mu EXCEPT !.si = RWLockCall(@, t)]
    /\ th' = [th EXCEPT ![t] = [pc |-> "Lock", op |-> "addOrUpdate", arg |-> obj, old |-> Nil]]
    /\ UNCHANGED <<trees, si, cc, restVars>>

\* Delete of a storeElement: up to si.lock.Lock().
ThDelete(t, obj) ==
    /\ th[t].pc = "idle"
    /\ mu' = [mu EXCEPT !.si = RWLockCall(@, t)]
    /\ th' = [th EXCEPT ![t] = [pc |-> "Lock", op |-> "Delete", arg |-> obj, old |-> Nil]]
    /\ UNCHANGED <<trees, si, cc, restVars>>

\* Replace: up to si.lock.Lock().
ThReplace(t, objs) ==
    /\ th[t].pc = "idle"
    /\ mu' = [mu EXCEPT !.si = RWLockCall(@, t)]
    /\ th' = [th EXCEPT ![t] = [pc |-> "Lock", op |-> "Replace", arg |-> objs, old |-> Nil]]
    /\ UNCHANGED <<trees, si, cc, restVars>>

\* si.lock.Lock() returns.
ThLock(t) ==
    /\ th[t].pc = "Lock"
    /\ RWCanLock(mu.si, t)
    /\ mu' = [mu EXCEPT !.si = RWLock(@, t)]
    /\ th' = [th EXCEPT ![t].pc = "store"]
    /\ UNCHANGED <<trees, si, cc, restVars>>

\* The store call of the mutation: addOrUpdateElem, deleteElem or Replace.
ThStore(t) ==
    /\ th[t].pc = "store"
    /\ LET tree == trees[si.store.tree]
           s == CASE th[t].op = "addOrUpdate" ->
                       LET r == addOrUpdateElem(tree, th[t].arg)
                       IN  [tree |-> r.tree, old |-> r.old, pc |-> "updateElem"]
                  [] th[t].op = "Delete" ->
                       LET r == deleteElem(tree, th[t].arg)
                       IN  [tree |-> r.tree, old |-> r.old,
                            pc |-> IF r.old = Nil THEN "return" ELSE "updateElem"]
                  [] th[t].op = "Replace" ->
                       LET r == StoreReplace(th[t].arg)
                       IN  [tree |-> r.tree, old |-> Nil,
                            pc |-> IF r.err THEN "return" ELSE "indexerReplace"]
       IN  /\ trees' = [trees EXCEPT ![si.store.tree] = s.tree]
           /\ th' = [th EXCEPT ![t].pc = s.pc, ![t].old = s.old]
    /\ UNCHANGED <<si, cc, mu, restVars>>

\* The indexer call of the mutation and its return: updateElem or
\* indexer.Replace, then the deferred Unlock.
ThIndexUnlock(t) ==
    /\ th[t].pc \in {"updateElem", "indexerReplace"}
    /\ \E order \in IndexOrders :
          si' = [si EXCEPT !.indexer.indices =
                    IF th[t].pc = "indexerReplace"
                    THEN IndexerReplace(th[t].arg, order).indices
                    ELSE updateElem(si.indexer.indices, th[t].arg.Key, th[t].old,
                                    IF th[t].op = "Delete" THEN Nil ELSE th[t].arg,
                                    order, 1).indices]
    /\ mu' = [mu EXCEPT !.si = RWUnlock(@)]
    /\ th' = ReturnUnlocking(t, mu.si)
    /\ UNCHANGED <<trees, cc, restVars>>

\* Delete of an absent key, Replace after the store's error: the return
\* and its deferred Unlock.
ThReturnUnlock(t) ==
    /\ th[t].pc = "return"
    /\ mu' = [mu EXCEPT !.si = RWUnlock(@)]
    /\ th' = ReturnUnlocking(t, mu.si)
    /\ UNCHANGED <<trees, si, cc, restVars>>

\* A plausible slip: a read method without the RLock.
ThRead_NoRLock(t, method) ==
    /\ th[t].pc = "idle"
    /\ mu' = mu
    /\ th' = [th EXCEPT ![t] = [pc |-> "read", op |-> method, arg |-> Nil, old |-> Nil]]
    /\ UNCHANGED <<trees, si, cc, restVars>>

\* A read method or Clone: si.lock.RLock() is called.
ThRead(t, method) ==
    /\ th[t].pc = "idle"
    /\ mu' = [mu EXCEPT !.si = RWRLockCall(@, t)]
    /\ th' = [th EXCEPT ![t] = [pc  |-> IF RWCanRLock(mu.si) THEN "read" ELSE "RLock",
                                op  |-> method, arg |-> Nil, old |-> Nil]]
    /\ UNCHANGED <<trees, si, cc, restVars>>

\* A read method reads the store or the indexer and returns: the deferred
\* RUnlock.
ThReadRUnlock(t) ==
    /\ th[t].pc = "read"
    /\ th[t].op \in ReadMethods
    /\ mu' = [mu EXCEPT !.si = RWRUnlock(@, t)]
    /\ th' = [th EXCEPT ![t] = ThreadIdle]
    /\ UNCHANGED <<trees, si, cc, restVars>>

\* Clone: si.store.Clone() and the return; the caller lets go of the store
\* it got.
ThCloneRUnlock(t) ==
    /\ th[t].pc = "read"
    /\ th[t].op = "Clone"
    /\ LET c == siClone(trees, si, CloneAddress(t))
       IN  trees' = [p \in DOMAIN trees |-> c.heap[p]]
    /\ mu' = [mu EXCEPT !.si = RWRUnlock(@, t)]
    /\ th' = [th EXCEPT ![t] = ThreadIdle]
    /\ UNCHANGED <<si, cc, restVars>>

\* continueCache.Set(rv, si): c.Lock() is called.
ThSet(t, rv) ==
    /\ th[t].pc = "idle"
    /\ mu' = [mu EXCEPT !.c = RWLockCall(@, t)]
    /\ th' = [th EXCEPT ![t] = [pc |-> "cLock", op |-> "Set", arg |-> rv, old |-> Nil]]
    /\ UNCHANGED <<trees, si, cc, restVars>>

\* continueCache.Cleanup(rv): c.Lock() is called.
ThCleanup(t, rv) ==
    /\ th[t].pc = "idle"
    /\ mu' = [mu EXCEPT !.c = RWLockCall(@, t)]
    /\ th' = [th EXCEPT ![t] = [pc |-> "cLock", op |-> "Cleanup", arg |-> rv, old |-> Nil]]
    /\ UNCHANGED <<trees, si, cc, restVars>>

\* c.Lock() returns.
ThCLock(t) ==
    /\ th[t].pc = "cLock"
    /\ RWCanLock(mu.c, t)
    /\ mu' = [mu EXCEPT !.c = RWLock(@, t)]
    /\ th' = [th EXCEPT ![t].pc = "cHeld"]
    /\ UNCHANGED <<trees, si, cc, restVars>>

\* Set tests c.cache[rv]: a cached revision returns with the deferred
\* Unlock; otherwise revisions.ReplaceOrInsert, and indexer.Clone() calls
\* si.lock.RLock() while c is held.
ThSetTest(t) ==
    /\ th[t].pc = "cHeld"
    /\ th[t].op = "Set"
    /\ IF th[t].arg \in DOMAIN cc.cache
       THEN /\ mu' = [mu EXCEPT !.c = RWUnlock(@)]
            /\ th' = ReturnUnlocking(t, mu.c)
            /\ cc' = cc
       ELSE /\ mu' = [mu EXCEPT !.si = RWRLockCall(@, t)]
            /\ th' = [th EXCEPT ![t].pc = IF RWCanRLock(mu.si) THEN "clone" ELSE "SetRLock"]
            /\ cc' = [cc EXCEPT !.revisions = RevInsert(@, th[t].arg)]
    /\ UNCHANGED <<trees, si, restVars>>

\* A plausible slip: the Clone of Set returns without RUnlock.
ThSetClone_NoRUnlock(t) ==
    /\ th[t].pc = "clone"
    /\ LET r == ccSet(trees, cc, th[t].arg, si, 1 + th[t].arg)
       IN  /\ trees' = r.heap
           /\ cc' = r.cc
    /\ mu' = [mu EXCEPT !.c = RWUnlock(@)]
    /\ th' = ReturnUnlocking(t, mu.c)
    /\ UNCHANGED <<si, restVars>>

\* Set: the Clone under si's read lock with its RUnlock, the entry of the
\* cache, and the return with the deferred Unlock of c.
ThSetClone(t) ==
    /\ th[t].pc = "clone"
    /\ LET r == ccSet(trees, cc, th[t].arg, si, 1 + th[t].arg)
       IN  /\ trees' = r.heap
           /\ cc' = r.cc
    /\ mu' = [mu EXCEPT !.si = RWRUnlock(@, t), !.c = RWUnlock(@)]
    /\ th' = ReturnUnlocking(t, mu.c)
    /\ UNCHANGED <<si, restVars>>

\* Cleanup: the loop over the revisions and the return with the deferred
\* Unlock.
ThCleanupUnlock(t) ==
    /\ th[t].pc = "cHeld"
    /\ th[t].op = "Cleanup"
    /\ LET c == ccCleanup(cc, th[t].arg)
       IN  /\ cc' = c
           /\ trees' = Collect(trees, si, clone, c)
    /\ mu' = [mu EXCEPT !.c = RWUnlock(@)]
    /\ th' = ReturnUnlocking(t, mu.c)
    /\ UNCHANGED <<si, restVars>>

\* continueCache.FindEqualOrLower(rv): c.RLock() is called.
ThFind(t, rv) ==
    /\ th[t].pc = "idle"
    /\ mu' = [mu EXCEPT !.c = RWRLockCall(@, t)]
    /\ th' = [th EXCEPT ![t] = [pc  |-> IF RWCanRLock(mu.c) THEN "find" ELSE "cRLock",
                                op  |-> "FindEqualOrLower", arg |-> rv, old |-> Nil]]
    /\ UNCHANGED <<trees, si, cc, restVars>>

\* FindEqualOrLower reads the cache and returns: the deferred RUnlock.
ThFindRUnlock(t) ==
    /\ th[t].pc = "find"
    /\ mu' = [mu EXCEPT !.c = RWRUnlock(@, t)]
    /\ th' = [th EXCEPT ![t] = ThreadIdle]
    /\ UNCHANGED <<trees, si, cc, restVars>>

\* The steps of goroutine t inside a method it has called.
ThContinue(t) ==
    \/ ThLock(t)
    \/ ThStore(t)
    \/ ThIndexUnlock(t)
    \/ ThReturnUnlock(t)
    \/ ThReadRUnlock(t)
    \/ ThCloneRUnlock(t)
    \/ ThCLock(t)
    \/ ThSetTest(t)
    \/ ThSetClone(t)
    \/ ThCleanupUnlock(t)
    \/ ThFindRUnlock(t)

\* The calls goroutine t makes, its read calls among `methods` and its
\* cache calls with a revision among `revisions`.
ThCall(t, methods, revisions) ==
    \/ \E obj \in ThreadElems : ThAddOrUpdate(t, obj)
    \/ \E obj \in ThreadElems : ThDelete(t, obj)
    \/ \E objs \in ThreadLists : ThReplace(t, objs)
    \/ \E method \in methods : ThRead(t, method)
    \/ \E rv \in revisions : ThSet(t, rv)
    \/ \E rv \in revisions : ThCleanup(t, rv)
    \/ \E rv \in revisions : ThFind(t, rv)

NextThreads ==
    \E t \in Threads :
       ThCall(t, ReadMethods \cup {"Clone"}, ThreadRevisions) \/ ThContinue(t)

SpecThreads == InitClone /\ [][NextThreads]_vars

\* SpecThreadsFair: the goroutines of SpecThreads under a scheduler that
\* runs every goroutine that can take a step; the calls themselves are the
\* callers' choice.  List stands for the read methods, which have one body,
\* and the cache is called with one revision.
NextThreadsFair ==
    \E t \in Threads : ThCall(t, {"List", "Clone"}, {1}) \/ ThContinue(t)

FairThreads == \A t \in Threads : WF_vars(ThContinue(t))

SpecThreadsFair == InitClone /\ [][NextThreadsFair]_vars /\ FairThreads

(***************************************************************************)
(* Vocabulary of the properties.                                           *)
(***************************************************************************)
ElemsOf(seq) == {seq[i] : i \in 1..Len(seq)}

KeysOf(seq) == {seq[i].Key : i \in 1..Len(seq)}

StrictlyAscending(seq) ==
    \A i, j \in 1..Len(seq) : i < j => StrLess(seq[i].Key, seq[j].Key)

RECURSIVE Concat(_)
Concat(pages) ==
    IF pages = << >> THEN << >> ELSE Head(pages) \o Concat(Tail(pages))

WithPrefix(tree, prefix) == {e \in ElemsOf(tree) : HasPrefix(e.Key, prefix)}

(***************************************************************************)
(* The facade's reads, on the state.                                       *)
(***************************************************************************)
LiveTree == trees[si.store.tree]

LiveIndices == si.indexer.indices

\* The values the index function of `name` returns for an element.
ValuesOf(name, elem) ==
    LET r == IndexFunc(name, elem)
    IN  IF r.err THEN {} ELSE {r.values[i] : i \in 1..Len(r.values)}

(***************************************************************************)
(* Every read of a btreeStore, for the arguments of SpecClone.             *)
(***************************************************************************)
ReadAll(tree) ==
    [List       |-> List(tree),
     ListKeys   |-> ListKeys(tree),
     Get        |-> [e \in CloneElems |-> Get(tree, e)],
     GetByKey   |-> [k \in CloneKeys |-> GetByKey(tree, k)],
     ListPrefix |-> [a \in ClonePrefixes \X CloneContinueKeys \X CloneLimits |->
                        ListPrefix(tree, a[1], a[2], a[3])],
     Count      |-> [a \in ClonePrefixes \X CloneContinueKeys |->
                        Count(tree, a[1], a[2])]]

(***************************************************************************)
(* C1  Snapshot isolation: after S' = S.Clone(), every read on S' returns  *)
(* what it returned right after the Clone whatever Add/Update/Delete/      *)
(* Replace the facade applies to S, and the calls applied to S' never      *)
(* change a read of S: each store holds what Clone and its own calls left. *)
(***************************************************************************)
C1_SnapshotIsolation ==
    /\ ReadAll(trees[si.store.tree]) = ReadAll(liveExpect)
    /\ clone.has => ReadAll(trees[clone.tree]) = ReadAll(snapExpect)

\* S was written after the Clone, S' was not, and S' reads differently from S.
C1_Witness ==
    /\ clone.has /\ touched.live /\ ~touched.clone
    /\ List(trees[clone.tree]) = <<storeElement(<<0>>, "plain"), storeElement(<<0, 1>>, "plain")>>
    /\ List(trees[si.store.tree]) = <<storeElement(<<0>>, "x")>>

\* Both stores were written after the Clone and hold different elements.
C1_WitnessBoth ==
    /\ clone.has /\ touched.live /\ touched.clone
    /\ List(trees[clone.tree]) = <<storeElement(<<0, 1>>, "plain")>>
    /\ List(trees[si.store.tree]) = <<storeElement(<<0>>, "x")>>

(***************************************************************************)
(* C2  continueCache.Set stores a clone, never a live reference: for every *)
(* cached rv, until Cleanup removes it, the store FindEqualOrLower(rv)     *)
(* returns holds exactly the elements the indexer held at the Set call,    *)
(* whatever is applied to the indexer afterwards.                          *)
(***************************************************************************)
C2_SetStoresClone ==
    /\ DOMAIN setAt = DOMAIN cc.cache
    /\ \A rv \in DOMAIN cc.cache :
          LET f == FindEqualOrLower(cc, rv)
          IN  /\ f.ok /\ f.foundRV = rv
              /\ List(trees[f.indexer.tree]) = setAt[rv]
              /\ f.indexer.tree # si.store.tree

\* Two revisions are cached with different elements, and the indexer has
\* since been emptied.
C2_Witness ==
    /\ DOMAIN cc.cache = {1, 2}
    /\ List(trees[FindEqualOrLower(cc, 1).indexer.tree])
         = <<storeElement(<<0>>, "x"), storeElement(<<0, 1>>, "plain")>>
    /\ List(trees[FindEqualOrLower(cc, 2).indexer.tree]) = <<storeElement(<<0>>, "plain")>>
    /\ List(trees[si.store.tree]) = << >>

(***************************************************************************)
(* C3  Consistent continuation under concurrent mutation: Set(R, facade)   *)
(* was called when the facade held E; a reader paging with ListPrefix(p,   *)
(* continueKey, limit > 0) on the store FindEqualOrLower(R) returns, with  *)
(* the writer's steps between and inside the pages and R not removed by    *)
(* Cleanup, gets pages that concatenate to the elements of E with prefix   *)
(* p in ascending key order.                                               *)
(***************************************************************************)
\* The elements of E with the prefix, in ascending key order.
AscendingWithPrefix(E, prefix) == SelectSeq(E, LAMBDA e : HasPrefix(e.Key, prefix))

IsPrefixOf(a, b) == Len(a) <= Len(b) /\ SubSeq(b, 1, Len(a)) = a

C3_ConsistentContinuation ==
    /\ StrictlyAscending(walk.E)
    /\ walk.pc = "done" =>
          Concat(walk.pages) = AscendingWithPrefix(walk.E, walk.prefix)
    /\ walk.pc \in {"ready", "scan"} =>
          IsPrefixOf(Concat(walk.pages) \o walk.page,
                     AscendingWithPrefix(walk.E, walk.prefix))

\* The reader has its last page of two or more; the writer wrote the store
\* while the reader was paging and is inside a method now; the pages are
\* not what the facade holds.
C3_Witness ==
    /\ walk.pc = "done"
    /\ walk.during
    /\ Len(walk.pages) >= 2
    /\ wr.pc # "idle"
    /\ Concat(walk.pages) # << >>
    /\ Concat(walk.pages) # walk.E
    /\ Concat(walk.pages) # AscendingWithPrefix(trees[si.store.tree], walk.prefix)

(***************************************************************************)
(* C5  No torn reads: with one writer and concurrent readers, every read   *)
(* of the facade returns what it returns on the state after a whole number *)
(* of the writer's completed calls; while a reader is inside a read method *)
(* the store and the indices are those of that state, never the store of   *)
(* a call whose index update is still to come.                             *)
(***************************************************************************)
C5_NoTornReads ==
    /\ \A r \in Readers : rd[r].pc = "read" => rd[r].seen = rd[r].expect
    /\ (lock.readers > 0 \/ wr.pc = "idle") =>
          /\ trees[si.store.tree] = committed.tree
          /\ si.indexer.indices = committed.indices
    /\ lock.readers = Cardinality({r \in Readers : rd[r].pc = "read"})
    /\ lock.writer <=> wr.pc # "idle"

\* Both readers are inside a read method after the writer's calls left two
\* elements, one reading the store and one reading the index.
C5_Witness ==
    /\ lock.readers = 2
    /\ Len(committed.tree) = 2
    /\ rd[1].call = <<"List">> /\ rd[1].seen = committed.tree
    /\ rd[2].call = <<"ByIndex", "byLabel", "y">> /\ rd[2].seen.list # {}

\* The writer is between its store update and its index update: the store
\* has an element the indices do not, and no reader is inside a method.
C5_WitnessTorn ==
    /\ wr.pc = "updateElem"
    /\ trees[si.store.tree] # committed.tree
    /\ si.indexer.indices = committed.indices
    /\ lock.readers = 0

(***************************************************************************)
(* C11  FindEqualOrLower(rv) returns ok = true, the greatest cached        *)
(* revision <= rv as foundRV and the snapshot stored for it whenever some  *)
(* cached revision <= rv exists, and ok = false exactly when none exists.  *)
(***************************************************************************)
\* The revisions FindEqualOrLower is asked for: below, among and above the
\* revisions handed to Set.
AskedRevisions == 0..(MaxRV + 1)

CachedUpTo(rv) == {r \in DOMAIN cc.cache : r <= rv}

Greatest(S) == CHOOSE m \in S : \A r \in S : r <= m

C11_FindEqualOrLower ==
    \A rv \in AskedRevisions :
       LET f == FindEqualOrLower(cc, rv)
       IN  IF CachedUpTo(rv) = {} THEN ~f.ok
           ELSE /\ f.ok
                /\ f.foundRV = Greatest(CachedUpTo(rv))
                /\ f.indexer = cc.cache[Greatest(CachedUpTo(rv))]
                /\ List(trees[f.indexer.tree]) = setAt[Greatest(CachedUpTo(rv))]

\* Revisions 1 and 2 are cached with different snapshots; a revision above
\* both is answered with the snapshot of 2.
C11_Witness ==
    /\ DOMAIN cc.cache = {1, 2}
    /\ setAt[1] # setAt[2]
    /\ setAt[2] # << >>
    /\ FindEqualOrLower(cc, 3).foundRV = 2
    /\ List(trees[FindEqualOrLower(cc, 3).indexer.tree]) = setAt[2]

\* Only revision 2 is cached: a lower revision finds nothing.
C11_WitnessNone ==
    /\ DOMAIN cc.cache = {2}
    /\ ~FindEqualOrLower(cc, 1).ok
    /\ FindEqualOrLower(cc, 3).ok

(***************************************************************************)
(* C12  After Cleanup(rv) no revision strictly less than rv is cached:     *)
(* FindEqualOrLower(x) returns ok = false for every x < rv, whatever Set   *)
(* and Cleanup calls came before.                                          *)
(***************************************************************************)
C12_CleanupRemovesLower ==
    last.op = "Cleanup" =>
       /\ \A x \in AskedRevisions : x < last.rv => ~FindEqualOrLower(cc, x).ok
       /\ \A x \in DOMAIN cc.cache : ~(x < last.rv)

\* Cleanup(3) was called with revisions 1 and 2 cached, and nothing is
\* found for them any more.
C12_Witness ==
    /\ last.op = "Cleanup"
    /\ last.rv = 3
    /\ DOMAIN last.before = {1, 2}
    /\ ~FindEqualOrLower(cc, 2).ok

(***************************************************************************)
(* C13  Cleanup(rv) removes only revisions strictly less than rv: every    *)
(* revision >= rv cached before the call, rv itself included, is cached    *)
(* after it with the same snapshot.                                        *)
(***************************************************************************)
C13_CleanupKeepsFrom ==
    last.op = "Cleanup" =>
       \A r \in DOMAIN last.before :
          r >= last.rv =>
             /\ r \in DOMAIN cc.cache
             /\ Snapshots(cc, trees)[r] = last.before[r]
             /\ FindEqualOrLower(cc, r).ok /\ FindEqualOrLower(cc, r).foundRV = r

\* What the loop does keep: the revisions strictly greater than rv.
C13_CleanupKeepsAbove ==
    last.op = "Cleanup" =>
       /\ DOMAIN cc.cache = {r \in DOMAIN last.before : r > last.rv}
       /\ \A r \in DOMAIN cc.cache : Snapshots(cc, trees)[r] = last.before[r]

(***************************************************************************)
(* C14  Set is first-writer-wins per revision: Set of a cached rv changes  *)
(* neither the snapshot returned for rv nor the set of cached revisions;   *)
(* Set of an uncached rv adds exactly rv, with the elements the indexer    *)
(* holds, and leaves every other revision and snapshot as it was.          *)
(***************************************************************************)
C14_SetFirstWriterWins ==
    last.op = "Set" =>
       IF last.rv \in DOMAIN last.before
       THEN /\ Snapshots(cc, trees) = last.before
            /\ cc.revisions = last.revisions
       ELSE /\ DOMAIN cc.cache = DOMAIN last.before \cup {last.rv}
            /\ \A r \in DOMAIN last.before : Snapshots(cc, trees)[r] = last.before[r]
            /\ Snapshots(cc, trees)[last.rv] = last.held
            /\ cc.revisions = RevInsert(last.revisions, last.rv)

\* Set was called for a cached revision while the indexer held other
\* elements than the snapshot, next to a second cached revision.
C14_Witness ==
    /\ last.op = "Set"
    /\ last.rv \in DOMAIN last.before
    /\ last.before[last.rv] # last.held
    /\ last.before[last.rv] # << >>
    /\ DOMAIN last.before = {1, 2}

\* Set was called for an uncached revision next to a cached one.
C14_WitnessNew ==
    /\ last.op = "Set"
    /\ last.rv = 2
    /\ DOMAIN last.before = {1}
    /\ last.before[1] # last.held

(***************************************************************************)
(* C15  Invalid input is rejected without effect: facade Add, Update,      *)
(* Delete or Get with a nil object or an object that is not a store        *)
(* element returns an error (Get also exists = false and no item) and      *)
(* leaves the store and every index as they were before the call.          *)
(***************************************************************************)
C15_InvalidInputRejected ==
    (last.op \in {"Add", "Update", "Delete", "Get"} /\ last.arg \in {Nil, NotAnElement}) =>
       /\ last.err
       /\ trees[si.store.tree] = last.tree
       /\ si.indexer.indices = last.indices
       /\ last.op = "Get" => (~last.out.exists /\ last.out.item = Nil)

\* Add(nil) was called on a facade holding two indexed elements.
C15_Witness ==
    /\ last.op = "Add"
    /\ last.arg = Nil
    /\ Len(last.tree) = 2
    /\ last.indices # EmptyMap

\* Get of an object of the wrong type was called on a facade holding elements.
C15_WitnessGet ==
    /\ last.op = "Get"
    /\ last.arg = NotAnElement
    /\ Len(last.tree) = 2

(***************************************************************************)
(* C16  Replace(objs, rv) that returns no error leaves the facade holding  *)
(* exactly the elements of objs (for a key that occurs twice, the last     *)
(* one) and nothing stored before, and every index reflects exactly those  *)
(* elements.                                                               *)
(***************************************************************************)
\* The store holds exactly the elements of the reference map.
HoldsExactly(tree, m) ==
    /\ KeysOf(List(tree)) = DOMAIN m
    /\ \A k \in DOMAIN m : GetByKey(tree, k).item = m[k]

\* Every index set holds exactly the stored elements that have its value.
IndexReflects(tree, indices) ==
    \A n \in IndexNames, v \in IndexValues :
       ByIndex(indices, n, v).list = {e \in ElemsOf(List(tree)) : v \in ValuesOf(n, e)}

C16_ReplaceHoldsObjs ==
    (last.op = "Replace" /\ ~last.err) =>
       /\ HoldsExactly(trees[si.store.tree], RefOf(EmptyMap, last.arg, 1))
       /\ IndexReflects(trees[si.store.tree], si.indexer.indices)

\* The store half of the claim, which holds.
C16_ReplaceStoreHoldsObjs ==
    (last.op = "Replace" /\ ~last.err) =>
       HoldsExactly(trees[si.store.tree], RefOf(EmptyMap, last.arg, 1))

\* No key occurs twice among the entries of objs.
NoDuplicateKey(objs) ==
    \A i, j \in 1..Len(objs) : (i # j) => objs[i].Key # objs[j].Key

\* The claim for lists without a duplicate key, which holds.
C16_ReplaceNoDuplicates ==
    (last.op = "Replace" /\ ~last.err /\ NoDuplicateKey(last.arg)) =>
       /\ HoldsExactly(trees[si.store.tree], RefOf(EmptyMap, last.arg, 1))
       /\ IndexReflects(trees[si.store.tree], si.indexer.indices)

(***************************************************************************)
(* C17  Replace is atomic: when facade Replace(objs, rv) returns an error  *)
(* the store and the indices are as they were before the call, and in no   *)
(* case does Replace leave the store and the indices describing different  *)
(* sets of elements.                                                       *)
(***************************************************************************)
\* The elements some index set holds.
IndexedElems(indices) ==
    UNION {ByIndex(indices, n, v).list : n \in IndexNames, v \in IndexValues}

C17_ReplaceAtomic ==
    last.op = "Replace" =>
       /\ last.err => /\ trees[si.store.tree] = last.tree
                      /\ si.indexer.indices = last.indices
       /\ ElemsOf(List(trees[si.store.tree])) = IndexedElems(si.indexer.indices)

\* The first half alone: after an error nothing has changed.
C17_ReplaceErrorKeepsState ==
    (last.op = "Replace" /\ last.err) =>
       /\ trees[si.store.tree] = last.tree
       /\ si.indexer.indices = last.indices

(***************************************************************************)
(* C18  Facade Delete(e) of a key that is not stored returns nil and       *)
(* leaves the store and every index unchanged; Delete(e) of a stored key   *)
(* removes exactly that key from the store and from every index set and    *)
(* leaves all other keys and their index entries unchanged.                *)
(***************************************************************************)
\* The set of index name n for value v: key -> element.
IndexSet(indices, n, v) ==
    IF n \in DOMAIN indices /\ v \in DOMAIN indices[n] THEN indices[n][v] ELSE EmptyMap

\* tree is before without the element of key k, every other element kept.
TreeWithout(tree, before, k) ==
    /\ KeysOf(List(tree)) = KeysOf(List(before)) \ {k}
    /\ \A j \in KeysOf(List(tree)) : GetByKey(tree, j) = GetByKey(before, j)

\* Every index set is the one before without key k.
IndicesWithout(indices, before, k) ==
    \A n \in IndexNames, v \in IndexValues :
       IndexSet(indices, n, v) = MapDelete(IndexSet(before, n, v), k)

DeleteOfAbsent ==
    /\ last.op = "Delete"
    /\ last.arg.kind = "elem"
    /\ last.arg.Key \notin KeysOf(List(last.tree))

DeleteOfStored ==
    /\ last.op = "Delete"
    /\ last.arg.kind = "elem"
    /\ last.arg.Key \in KeysOf(List(last.tree))

C18_DeleteFrame ==
    /\ DeleteOfAbsent => /\ ~last.err
                         /\ trees[si.store.tree] = last.tree
                         /\ si.indexer.indices = last.indices
    /\ DeleteOfStored => /\ TreeWithout(trees[si.store.tree], last.tree, last.arg.Key)
                         /\ IndicesWithout(si.indexer.indices, last.indices, last.arg.Key)

\* The half about absent keys, and the store's part of the other half.
C18_DeleteStore ==
    /\ DeleteOfAbsent => /\ ~last.err
                         /\ trees[si.store.tree] = last.tree
                         /\ si.indexer.indices = last.indices
    /\ DeleteOfStored => TreeWithout(trees[si.store.tree], last.tree, last.arg.Key)

\* The indices' part, from a state where the indices reflect the store and
\* the index functions succeed on the stored element.
C18_DeleteFromConsistent ==
    (/\ DeleteOfStored
     /\ IndexReflects(last.tree, last.indices)
     /\ \A n \in IndexNames :
           ~IndexFunc(n, GetByKey(last.tree, last.arg.Key).item).err) =>
       /\ ~last.err
       /\ IndicesWithout(si.indexer.indices, last.indices, last.arg.Key)

(***************************************************************************)
(* C19  Not-found is signalled by exists = false, not by an error: for     *)
(* every key, GetByKey(key) and Get of an element with that key return     *)
(* err = nil always, exists = true together with the element most recently *)
(* written under that key when the key is stored, and exists = false with  *)
(* a nil item when it is not.                                              *)
(***************************************************************************)
\* The lookup returned what was most recently written under key.
FoundAsWritten(out, key) ==
    /\ ~out.err
    /\ out.exists = (key \in DOMAIN ref)
    /\ out.item = IF key \in DOMAIN ref THEN ref[key] ELSE Nil

C19_NotFoundIsNotAnError ==
    /\ last.op = "GetByKey" => FoundAsWritten(last.out, last.arg)
    /\ (last.op = "Get" /\ last.arg.kind = "elem") =>
          FoundAsWritten(last.out, last.arg.Key)

\* Witness: a lookup in a store that holds elements reported a key as absent.
C19_WitnessAbsent ==
    /\ last.op \in {"Get", "GetByKey"}
    /\ ~last.err
    /\ ~last.out.exists
    /\ last.tree # BTreeNew

\* Witness: GetByKey found an element labelled x in a store of two elements.
C19_Witness ==
    /\ last.op = "GetByKey"
    /\ last.out.exists
    /\ last.out.item.Object = "x"
    /\ Len(last.tree) = 2

(***************************************************************************)
(* C20  ByIndex(indexName, v) returns an error if and only if indexName is *)
(* not a registered index; for a registered index and a value no element   *)
(* currently has, also before any element was added, it returns an empty   *)
(* list and no error.                                                      *)
(***************************************************************************)
\* The stored elements for which the index function of n returns v.
HavingValue(tree, n, v) == {e \in ElemsOf(List(tree)) : v \in ValuesOf(n, e)}

C20_ByIndexErrorIffUnregistered ==
    last.op = "ByIndex" =>
       /\ last.err <=> last.arg[1] \notin IndexNames
       /\ (last.arg[1] \in IndexNames
            /\ HavingValue(last.tree, last.arg[1], last.arg[2]) = {}) =>
              last.out.list = {}

\* The first half alone, and the second half before any element was written.
C20_ByIndexErrors ==
    last.op = "ByIndex" =>
       /\ last.err <=> last.arg[1] \notin IndexNames
       /\ (last.arg[1] \in IndexNames /\ last.indices = EmptyMap) => last.out.list = {}

(***************************************************************************)
(* C21  A negative limit yields "no results, no more" for both ListPrefix  *)
(* and Count: for every store content, prefix and continueKey, ListPrefix  *)
(* with limit < 0 returns an empty result with hasMore = false, and Count  *)
(* given a negative limit returns 0.                                       *)
(***************************************************************************)
\* The claim as stated: for a query with a negative limit ListPrefix returns
\* nothing and Count returns 0.
C21_NegativeLimitBoth ==
    query.limit < 0 =>
       /\ reply.called => (reply.result = << >> /\ ~reply.hasMore)
       /\ last.op = "Count" => last.out = 0

\* The claim for ListPrefix alone: with limit < 0 it returns an empty result
\* with hasMore = false, whatever the store holds.
C21_NegativeLimitListPrefix ==
    (query.limit < 0 /\ reply.called) => (reply.result = << >> /\ ~reply.hasMore)

\* Witness: ListPrefix was called with a negative limit on a store holding
\* two keys with the prefix, and Count for the same query returned 2.
C21_Witness ==
    /\ query.limit < 0
    /\ reply.called
    /\ last.op = "Count" /\ last.out = 2
    /\ Cardinality(WithPrefix(trees[0], query.prefix)) = 2

(***************************************************************************)
(* C22  Count agrees with ListPrefix: for every store content, prefix and  *)
(* continueKey, Count(prefix, continueKey) equals the number of elements   *)
(* returned by ListPrefix(prefix, continueKey, 0).                         *)
(***************************************************************************)
C22_CountAgreesWithListPrefix ==
    (query.limit = 0 /\ reply.called /\ last.op = "Count") =>
       last.out = Len(reply.result)

\* Witness: both calls were made with an empty continueKey and found two
\* elements, with a stored key below the prefix.
C22_Witness ==
    /\ query.limit = 0 /\ reply.called /\ last.op = "Count"
    /\ query.continueKey = EmptyString
    /\ last.out = 2
    /\ \E e \in ElemsOf(List(trees[0])) : StrLess(e.Key, query.prefix)

\* Witness: both calls started at a continueKey inside the prefix range.
C22_WitnessContinue ==
    /\ query.limit = 0 /\ reply.called /\ last.op = "Count"
    /\ query.continueKey # EmptyString
    /\ last.out = 1
    /\ Cardinality(WithPrefix(trees[0], query.prefix)) = 2

(***************************************************************************)
(* C28  Add/Update never leaves store and index diverged: if facade Add or *)
(* Update returns an error for any reason, an index function failing on    *)
(* the new or the old element included, the store content and all indices  *)
(* are the same as before the call, so the indices still reflect the       *)
(* store afterwards.                                                       *)
(***************************************************************************)
C28_AddUpdateErrorKeepsState ==
    (last.op \in {"Add", "Update"} /\ last.err) =>
       /\ trees[si.store.tree] = last.tree
       /\ si.indexer.indices = last.indices
       /\ IndexReflects(last.tree, last.indices) =>
             IndexReflects(trees[si.store.tree], si.indexer.indices)

\* The claim for the errors raised before the lock is taken (nil and
\* non-element input), which holds.
C28_InvalidInputKeepsState ==
    (last.op \in {"Add", "Update"} /\ last.err /\ last.arg.kind # "elem") =>
       /\ trees[si.store.tree] = last.tree
       /\ si.indexer.indices = last.indices

(***************************************************************************)
(* C24  No callback is invoked while the facade lock is held: in every     *)
(* reachable state in which a caller-supplied index function is executing, *)
(* the facade's lock is not held by the invoking operation.                *)
(***************************************************************************)
\* The writer is inside indexer.updateElem, or inside indexer.Replace with
\* an entry to index: the index functions are being called.
IndexFuncExecuting ==
    \/ wr.pc = "updateElem"
    \/ wr.pc = "indexerReplace" /\ wr.arg # << >>

C24_NoCallbackUnderLock == IndexFuncExecuting => ~lock.writer

(***************************************************************************)
(* C25  nestedPendingOperations mutual exclusion: in every reachable state *)
(* no two operations marked pending have conflicting keys (same non-empty  *)
(* volumeName, podName equal or one of them empty, nodeName equal or one   *)
(* of them empty), whatever non-pending entries are in the list.           *)
(***************************************************************************)
Conflicting(a, b) ==
    /\ a.volumeName # ""
    /\ a.volumeName = b.volumeName
    /\ (a.podName = b.podName \/ a.podName = "" \/ b.podName = "")
    /\ (a.nodeName = b.nodeName \/ a.nodeName = "" \/ b.nodeName = "")

PendingConflict(operations) ==
    \E i, j \in 1..Len(operations) :
       /\ i < j
       /\ operations[i].operationPending /\ operations[j].operationPending
       /\ Conflicting(operations[i].key, operations[j].key)

C25_NoConflictingPending == ~PendingConflict(grm.operations)

\* The claim without exponential backoff, where no entry is ever non-pending.
C25_NoConflictWithoutBackoff ==
    ~grm.exponentialBackOffOnError => ~PendingConflict(grm.operations)

(***************************************************************************)
(* C26  nestedPendingOperations completion removes exactly its own entry:  *)
(* when an operation started by Run with a key completes without error or  *)
(* with exponential backoff disabled, exactly the list entry of that key   *)
(* is removed, so that IsOperationPending for the key becomes false, every *)
(* other entry stays in the list as it was, and operationComplete never    *)
(* indexes the list out of range.                                          *)
(***************************************************************************)
\* How often entry e occurs in the list.
Occurrences(e, operations) == Cardinality({i \in 1..Len(operations) : operations[i] = e})

EntriesOf(operations) == {operations[i] : i \in 1..Len(operations)}

\* `after` is `before` with one entry of key `key` taken out.
RemovedOwnEntry(before, after, key) ==
    \E e \in EntriesOf(before) :
       /\ e.key = key
       /\ EntriesOf(after) \subseteq EntriesOf(before)
       /\ \A x \in EntriesOf(before) :
             Occurrences(x, after) = Occurrences(x, before) - (IF x = e THEN 1 ELSE 0)

\* This step is the completion of an operation of `key` that deletes an entry.
CompletionDeleting(key) ==
    /\ running.ops[key] > 0
    /\ running'.ops[key] = running.ops[key] - 1
    /\ Len(grm'.operations) < Len(grm.operations)

C26_CompletionRemovesOwnEntry ==
    [][\A key \in RunKeys :
          CompletionDeleting(key) =>
             /\ RemovedOwnEntry(grm.operations, grm'.operations, key)
             /\ ~IsOperationPending(grm'.operations, key)
             /\ ~running'.panicked]_vars

\* The part that holds: a completion never indexes the list out of range,
\* and it removes one entry with the volumeName and podName of its key.
C26_CompletionRemovesOneEntry ==
    [][\A key \in RunKeys :
          CompletionDeleting(key) =>
             /\ \E e \in EntriesOf(grm.operations) :
                   /\ e.key.volumeName = key.volumeName /\ e.key.podName = key.podName
                   /\ \A x \in EntriesOf(grm.operations) :
                         Occurrences(x, grm'.operations) =
                            Occurrences(x, grm.operations) - (IF x = e THEN 1 ELSE 0)
             /\ ~running'.panicked]_vars

C26_NeverOutOfRange == ~running.panicked

(***************************************************************************)
(* C27  nestedPendingOperations.Wait blocks until all operations are       *)
(* completed and then returns: once every operation function started by    *)
(* Run has returned, with or without error and with exponential backoff    *)
(* enabled or disabled, a call to Wait returns, and it does not return     *)
(* while an operation is still running.  Stated on states: no Wait is      *)
(* left blocked in cond.Wait when no goroutine started by Run is left to   *)
(* signal it, and a Wait returns only in such a state.                     *)
(***************************************************************************)
C27_WaitReturnsWhenAllComplete ==
    \A w \in Waiters : waiters[w] = "waiting" => Goroutines(running) > 0

\* The other half, which holds: Wait returns only when no operation
\* function is running.
C27_WaitReturnsOnlyWhenDone ==
    [][\A w \in Waiters :
          (waiters[w] # "returned" /\ waiters'[w] = "returned") =>
             SumOver(running.ops, RunKeys) = 0]_vars

\* C23: under weak fairness of the goroutines' steps every call of a facade
\* method and of Set, Cleanup and FindEqualOrLower returns, also a Set that
\* waits for the facade's read lock while it holds the cache's lock.
C23_EveryCallReturns ==
    \A t \in Threads : (th[t].pc # "idle") ~> (th[t].pc = "idle")

\* A Set holds the cache's lock and waits in si.lock.RLock() behind a
\* mutation of the facade, with another goroutine waiting for the cache.
C23_Witness ==
    \E t, u, v \in Threads :
       /\ th[t].pc = "SetRLock" /\ mu.c.writer = t
       /\ mu.si.writer = u \/ (mu.si.wq # << >> /\ mu.si.wq[1] = u)
       /\ th[v].pc \in {"cLock", "cRLock"}

\* Goroutine t is inside the critical section of a mutation of the facade.
InsideWrite(t) == th[t].pc \in {"store", "updateElem", "indexerReplace", "return"}

\* Goroutine t is inside the critical section of a read method or of Clone,
\* called by itself or by Set.
InsideRead(t) == th[t].pc \in {"read", "clone"}

\* C29: at most one mutation of the facade is inside its critical section,
\* and no read method or Clone is inside its own meanwhile; a goroutine
\* about to access the store or the indexer holds si.lock, for writing in a
\* mutation and for reading in a read method.
C29_ReaderWriterExclusion ==
    \A t \in Threads :
       /\ InsideWrite(t) =>
             /\ mu.si.writer = t
             /\ \A u \in Threads \ {t} : ~InsideWrite(u) /\ ~InsideRead(u)
       /\ InsideRead(t) => t \in mu.si.readers /\ mu.si.writer = 0

\* A mutation is inside its critical section while a second mutation and a
\* read method wait for the lock.
C29_Witness ==
    \E t, u, v \in Threads :
       InsideWrite(t) /\ th[u].pc = "Lock" /\ th[v].pc = "RLock"

\* Two read methods are inside their critical sections together.
C29_WitnessReaders ==
    \E t, u \in Threads : t # u /\ InsideRead(t) /\ InsideRead(u)

\* Goroutine t is inside the critical section of Clone.
InsideClone(t) == (th[t].pc = "read" /\ th[t].op = "Clone") \/ th[t].pc = "clone"

\* The address of the tree goroutine t's Clone is about to get.
NewTree(t) == IF th[t].pc = "clone" THEN 1 + th[t].arg ELSE CloneAddress(t)

\* The trees the Clone of goroutine t writes.
CloneWrites(t) ==
    LET c == siClone(trees, si, NewTree(t))
    IN  {p \in (DOMAIN trees) \cup (DOMAIN c.heap) :
            IF p \in (DOMAIN trees) \cap (DOMAIN c.heap) THEN c.heap[p] # trees[p]
            ELSE TRUE}

\* The trees goroutine u, inside a read method or Clone, reads or writes.
ReadAccesses(u) ==
    {si.store.tree} \cup (IF InsideClone(u) THEN CloneWrites(u) ELSE {})

\* No Clone writes a tree that a read method or another Clone inside its
\* critical section accesses.
NoCloneConflict ==
    \A t, u \in Threads :
       (t # u /\ InsideClone(t) /\ InsideRead(u)) =>
          CloneWrites(t) \cap ReadAccesses(u) = {}

\* A step in which a Clone returns leaves the facade and its tree alone.
CloneKeepsLive ==
    \A t \in Threads :
       (InsideClone(t) /\ th'[t].pc = "idle") =>
          si' = si /\ trees'[si.store.tree] = trees[si.store.tree]

C31_NoEmptyBuckets ==
    \A n \in DOMAIN si.indexer.indices :
       \A v \in DOMAIN si.indexer.indices[n] :
          DOMAIN si.indexer.indices[n][v] # {}

\* An Update or a Delete took the last key from under an index value, and
\* the value is gone from the index.
C31_Witness ==
    /\ last.op \in {"Update", "Delete"}
    /\ ~last.err
    /\ \E n \in DOMAIN last.indices :
          \E v \in DOMAIN last.indices[n] :
             /\ DOMAIN last.indices[n][v] = {last.arg.Key}
             /\ n \in DOMAIN si.indexer.indices
             /\ v \notin DOMAIN si.indexer.indices[n]

\* The same by an Update that changes the value of the key's element.
C31_WitnessUpdate ==
    /\ last.op = "Update"
    /\ ~last.err
    /\ "byLabel" \in DOMAIN last.indices
    /\ "byLabel" \in DOMAIN si.indexer.indices
    /\ "x" \in DOMAIN last.indices["byLabel"]
    /\ "x" \notin DOMAIN si.indexer.indices["byLabel"]

\* The keys stored in the btreeStore of SpecScan.
StoredKeys == {e.Key : e \in ElemsOf(List(trees[0]))}

\* C32: the empty continueKey stands for the prefix: ListPrefix and Count
\* called with either return the same, and a stored key equal to the prefix
\* is among the elements ListPrefix returns for a limit that is not
\* negative and among the keys Count counts.
C32_EmptyContinueKeyIsPrefix ==
    /\ (reply.called /\ query.continueKey \in {EmptyString, query.prefix}) =>
          /\ reply.result = ListPrefix(trees[0], query.prefix, EmptyString, query.limit).result
          /\ reply.result = ListPrefix(trees[0], query.prefix, query.prefix, query.limit).result
          /\ reply.hasMore = ListPrefix(trees[0], query.prefix, EmptyString, query.limit).hasMore
          /\ reply.hasMore = ListPrefix(trees[0], query.prefix, query.prefix, query.limit).hasMore
          /\ (query.prefix \in StoredKeys /\ query.limit >= 0) =>
                \E i \in 1..Len(reply.result) : reply.result[i].Key = query.prefix
    /\ (last.op = "Count" /\ query.continueKey \in {EmptyString, query.prefix}) =>
          /\ last.out = Count(trees[0], query.prefix, EmptyString)
          /\ last.out = Count(trees[0], query.prefix, query.prefix)
          /\ last.out = Cardinality({k \in StoredKeys : HasPrefix(k, query.prefix)})

\* ListPrefix was called with the empty continueKey and a prefix that is a
\* stored key next to a key before it and a key under it, and returned it.
C32_Witness ==
    /\ reply.called
    /\ query.continueKey = EmptyString
    /\ query.limit >= 1
    /\ query.prefix \in StoredKeys
    /\ \E k \in StoredKeys : StrLess(k, query.prefix)
    /\ \E k \in StoredKeys : k # query.prefix /\ HasPrefix(k, query.prefix)
    /\ reply.result # << >>
    /\ reply.result[1].Key = query.prefix

\* Count was called with the continueKey equal to the prefix, a stored key
\* with a key before it, and counted it.
C32_WitnessCount ==
    /\ last.op = "Count"
    /\ query.continueKey = query.prefix
    /\ query.prefix \in StoredKeys
    /\ \E k \in StoredKeys : StrLess(k, query.prefix)
    /\ last.out >= 1

\* Every element ByIndex returns is the element GetByKey returns for its
\* key.
ByIndexIsCurrent ==
    \A n \in IndexNames, v \in IndexValues :
       \A e \in ByIndex(LiveIndices, n, v).list :
          GetByKey(LiveTree, e.Key).item = e

\* C33: ByIndex never returns a superseded version of an element: in every
\* reachable state each element it returns is the one GetByKey returns
\* for its key.
C33_ByIndexReturnsCurrent == ByIndexIsCurrent

\* The same after calls that returned no error, no Replace among them
\* having been handed two entries with one key.
C33_CurrentAfterCleanCalls == (clean /\ ~dupReplace) => ByIndexIsCurrent

\* In SpecFrame: an Update replaced a stored element by another with the
\* same single value of "byNS", the fast path of updateElem, and ByIndex
\* returns the new element and not the old one.
C33_FastPathTaken ==
    /\ last.op = "Update" /\ ~last.err
    /\ LET old == GetByKey(last.tree, last.arg.Key).item
       IN  /\ old # Nil /\ old # last.arg
           /\ IndexFunc("byNS", old).values = IndexFunc("byNS", last.arg).values
           /\ last.arg \in ByIndex(LiveIndices, "byNS", IndexFunc("byNS", last.arg).values[1]).list
           /\ old \notin ByIndex(LiveIndices, "byNS", IndexFunc("byNS", last.arg).values[1]).list

\* The revisions in the tree of revisions are the keys of the cache map.
InStep(c) == {c.revisions[i] : i \in 1..Len(c.revisions)} = DOMAIN c.cache

\* C34: whenever no Set or Cleanup is inside its critical section, the
\* revisions in the tree are the keys of the map; so a FindEqualOrLower
\* that finds a revision in the tree finds its store in the map.
C34_BookkeepingInStep ==
    /\ mu.c.writer = 0 => InStep(cc)
    /\ \A t \in Threads :
          th[t].pc = "find" =>
             LET f == FindEqualOrLower(cc, th[t].arg)
             IN  /\ InStep(cc)
                 /\ f.foundRV # 0 => f.ok

\* A FindEqualOrLower reads the cache after a Set and a Cleanup, finding a
\* revision below its own, while another Set, having entered its revision
\* in the tree, waits for the cache's lock to be free of readers.
C34_Witness ==
    \E t, u \in Threads :
       /\ th[t].pc = "find" /\ th[t].arg = 2
       /\ FindEqualOrLower(cc, 2).foundRV = 1
       /\ th[u].pc = "cLock" /\ th[u].op = "Set"

\* A Set holds the lock with its revision in the tree and not yet in the
\* map, while a FindEqualOrLower waits.
C34_WitnessMidSet ==
    \E t, u \in Threads :
       /\ th[t].pc \in {"clone", "SetRLock"} /\ ~InStep(cc)
       /\ th[u].pc = "cRLock"

\* The stored elements whose key is not below c and has the prefix p, in
\* ascending order.
FromWithPrefix(p, c) ==
    SelectSeq(List(trees[0]), LAMBDA e : ~StrLess(e.Key, c) /\ HasPrefix(e.Key, p))

\* Some stored key is not below c and is below p: the scan from c meets a
\* key without the prefix before it reaches the keys that have it.
KeyBeforePrefix(p, c) ==
    \E k \in StoredKeys : ~StrLess(k, c) /\ StrLess(k, p)

\* C35: for every non-empty continueKey c, ListPrefix(p, c, 0) returns the
\* stored elements whose key is not below c and has the prefix p, in
\* ascending order, and Count(p, c) returns their number.
C35_ArbitraryContinueKey ==
    /\ (reply.called /\ query.continueKey # EmptyString /\ query.limit = 0) =>
          reply.result = FromWithPrefix(query.prefix, query.continueKey)
    /\ (last.op = "Count" /\ query.continueKey # EmptyString) =>
          last.out = Len(FromWithPrefix(query.prefix, query.continueKey))

\* C35 as amended: the scan starts at the first stored key not below c and
\* stops at the first key without the prefix; so ListPrefix(p, c, 0) and
\* Count(p, c) return nothing and 0 when a stored key lies from c up to p,
\* and the stored elements with a key not below c and the prefix p, in
\* ascending order, and their number otherwise.
C35_ScanFromContinueKey ==
    LET expected == IF KeyBeforePrefix(query.prefix, query.continueKey) THEN << >>
                    ELSE FromWithPrefix(query.prefix, query.continueKey)
    IN  /\ (reply.called /\ query.continueKey # EmptyString /\ query.limit = 0) =>
              reply.result = expected /\ ~reply.hasMore
        /\ (last.op = "Count" /\ query.continueKey # EmptyString) =>
              last.out = Len(expected)

\* ListPrefix was called with a continueKey below the prefix and a stored
\* key between them, and returned nothing though a stored key has the
\* prefix.
C35_Witness ==
    /\ reply.called /\ query.limit = 0
    /\ query.continueKey # EmptyString
    /\ StrLess(query.continueKey, query.prefix)
    /\ KeyBeforePrefix(query.prefix, query.continueKey)
    /\ FromWithPrefix(query.prefix, query.continueKey) # << >>
    /\ reply.result = << >>

\* ListPrefix was called with a continueKey that has not the prefix and is
\* below it, no stored key between them, and returned the keys with the
\* prefix.
C35_WitnessNoneBetween ==
    /\ reply.called /\ query.limit = 0
    /\ query.continueKey # EmptyString
    /\ StrLess(query.continueKey, query.prefix)
    /\ \E k \in StoredKeys : StrLess(k, query.continueKey)
    /\ Len(reply.result) >= 2

\* Count was called with a continueKey inside the range of the prefix and
\* counted the keys from it on, not the ones before it.
C35_WitnessCount ==
    /\ last.op = "Count"
    /\ query.continueKey # EmptyString /\ query.continueKey # query.prefix
    /\ HasPrefix(query.continueKey, query.prefix)
    /\ last.out >= 1
    /\ last.out < Cardinality({k \in StoredKeys : HasPrefix(k, query.prefix)})

(***************************************************************************)
(* C4  Index consistency: after facade calls that returned no error, for   *)
(* every registered index n and value v, the keys of the elements          *)
(* ByIndex(n, v) returns are exactly the stored keys whose current         *)
(* element has v among its values for n.                                   *)
(***************************************************************************)
C4_IndexConsistent ==
    clean =>
        \A n \in IndexNames, v \in IndexValues :
            {e.Key : e \in ByIndex(LiveIndices, n, v).list}
              = {e.Key : e \in {x \in ElemsOf(LiveTree) : v \in ValuesOf(n, x)}}

\* Index consistency for the writer's streams in which Replace is never
\* handed two entries with the same key.
C4_IndexConsistentNoDuplicates ==
    (clean /\ ~dupReplace) =>
        \A n \in IndexNames, v \in IndexValues :
            {e.Key : e \in ByIndex(LiveIndices, n, v).list}
              = {e.Key : e \in {x \in ElemsOf(LiveTree) : v \in ValuesOf(n, x)}}

\* An update has moved a stored key from two index values to one.
C4_Witness ==
    /\ clean /\ ~dupReplace /\ ret.op = "Update"
    /\ \E e \in ElemsOf(LiveTree) :
          /\ e.Object = "x"
          /\ e \in ByIndex(LiveIndices, "byLabel", "x").list
    /\ ByIndex(LiveIndices, "byLabel", "y").list = {}
    /\ Len(LiveTree) = 2

(***************************************************************************)
(* C9  Ordering and uniqueness: List() and ListKeys() return the stored    *)
(* elements / keys in strictly ascending key order, with the same length   *)
(* and the same keys position by position.                                 *)
(***************************************************************************)
C9_ListOrdered ==
    LET l == List(LiveTree)
        k == ListKeys(LiveTree)
    IN  /\ StrictlyAscending(l)
        /\ \A i, j \in 1..Len(k) : i < j => StrLess(k[i], k[j])
        /\ Len(l) = Len(k)
        /\ \A i \in 1..Len(l) : l[i].Key = k[i]
        /\ clean => ElemsOf(l) = {ref[x] : x \in DOMAIN ref}

\* Three keys are stored, the last one added sorting between the other two.
C9_Witness ==
    /\ clean /\ ret.op = "Add"
    /\ ListKeys(LiveTree) = << <<0>>, <<0, 1>>, <<1>> >>
    /\ \E e \in ElemsOf(LiveTree) : e.Key = <<0, 1>> /\ e.Object = "xy"
    /\ \E e \in ElemsOf(LiveTree) : e.Key = <<0>> /\ e.Object = "plain"

(***************************************************************************)
(* C10  The store is a faithful map of the mutation sequence: after        *)
(* successful calls, the stored keys and GetByKey of each key equal those  *)
(* of the reference map in which Add(e) and Update(e) set map[e.Key] = e,  *)
(* Delete(e) removes e.Key and Replace(objs) resets the map to objs.       *)
(***************************************************************************)
C10_FaithfulMap ==
    clean =>
        /\ KeysOf(LiveTree) = DOMAIN ref
        /\ \A k \in FacadeKeys :
              GetByKey(LiveTree, k) =
                  IF k \in DOMAIN ref
                  THEN [item |-> ref[k], exists |-> TRUE, err |-> FALSE]
                  ELSE [item |-> Nil, exists |-> FALSE, err |-> FALSE]

\* An Update of a key that was not stored has inserted it.
C10_Witness ==
    /\ clean /\ ret.op = "Update" /\ calls = 1
    /\ DOMAIN ref = {<<0, 1>>}
    /\ GetByKey(LiveTree, <<0, 1>>).exists

(***************************************************************************)
(* C6  Prefix-scan correctness: ListPrefix(p, "", 0) returns exactly the   *)
(* stored elements whose key has p as a prefix, each once, in ascending    *)
(* key order, with hasMore = false.                                        *)
(***************************************************************************)
C6_PrefixScanCorrect ==
    (reply.called /\ query.continueKey = EmptyString /\ query.limit = 0) =>
        /\ ElemsOf(reply.result) = WithPrefix(trees[0], query.prefix)
        /\ StrictlyAscending(reply.result)
        /\ reply.hasMore = FALSE

\* A scan that starts inside the tree (a stored key sorts before the prefix)
\* and returns two elements.
C6_Witness ==
    /\ reply.called /\ query.continueKey = EmptyString /\ query.limit = 0
    /\ Len(reply.result) = 2
    /\ \E e \in ElemsOf(trees[0]) : StrLess(e.Key, query.prefix)

\* A scan that stops at the end of the prefix range, before the end of the tree.
C6_WitnessStop ==
    /\ reply.called /\ query.continueKey = EmptyString /\ query.limit = 0
    /\ Len(reply.result) = 2
    /\ \E e \in ElemsOf(trees[0]) :
          ~HasPrefix(e.Key, query.prefix) /\ StrLess(query.prefix, e.Key)

(***************************************************************************)
(* C7  For limit > 0, ListPrefix returns at most limit elements, and       *)
(* hasMore is true iff the unlimited scan from the same start has more     *)
(* than limit results; when the page is not empty that is: iff a further   *)
(* stored element with the prefix exists after the last returned element.  *)
(***************************************************************************)
C7_LimitAndHasMore ==
    (reply.called /\ query.limit > 0) =>
        LET all  == ListPrefix(trees[0], query.prefix, query.continueKey, 0).result
            n    == Len(reply.result)
        IN  /\ n <= query.limit
            /\ reply.hasMore <=> (Len(all) > query.limit)
            /\ reply.result = SubSeq(all, 1, n)
            /\ n > 0 =>
                 (reply.hasMore <=>
                    \E e \in WithPrefix(trees[0], query.prefix) :
                        StrLess(reply.result[n].Key, e.Key))

\* A full page with more to come, read from a continuation key.
C7_Witness ==
    /\ reply.called /\ query.limit = 2 /\ query.continueKey # EmptyString
    /\ Len(reply.result) = 2 /\ reply.hasMore

\* A page that is cut short by the end of the prefix range, not by the limit.
C7_WitnessNoMore ==
    /\ reply.called /\ query.limit = 2
    /\ Len(reply.result) = 1 /\ ~reply.hasMore
    /\ Len(trees[0]) = 3

(***************************************************************************)
(* C8  Pagination completeness: on an unchanging store, paging from        *)
(* continueKey = "" with the last returned key plus a null byte as the     *)
(* next continueKey terminates, every page has at most limit elements,     *)
(* and the pages concatenate to ListPrefix(p, "", 0): nothing skipped,     *)
(* nothing returned twice.                                                 *)
(***************************************************************************)
C8_PaginationComplete ==
    /\ \A i \in 1..Len(pager.pages) : Len(pager.pages[i]) <= query.limit
    /\ StrictlyAscending(Concat(pager.pages))
    /\ Len(pager.pages) <= Len(trees[0]) + 1
    /\ (query.limit > 0 /\ ~pager.done) => ENABLED NextPage
    /\ pager.done =>
         /\ Concat(pager.pages) = ListPrefix(trees[0], query.prefix, EmptyString, 0).result
         /\ ElemsOf(Concat(pager.pages)) = WithPrefix(trees[0], query.prefix)

\* Three pages of one element each, the second read from a continuation key
\* that is itself a stored key (a key followed by a null byte).
C8_Witness ==
    /\ pager.done /\ query.limit = 1
    /\ Len(pager.pages) = 3
    /\ Len(Concat(pager.pages)) = 3
    /\ \E i, j \in 1..Len(trees[0]) : trees[0][j].Key = Append(trees[0][i].Key, 0)

=============================================================================
